---- MODULE Spec2Model ----
(***************************************************************************)
(* Resumable pipeline engine of api-automation-agent:                      *)
(*   - the shelve-backed Checkpoint store, the @Checkpoint.checkpoint      *)
(*     stage memoizer and the checkpoint_iter progress tracker             *)
(*     (src/src/utils/checkpoint.py),                                      *)
(*   - the retry-with-repair loop run_command_with_fix                     *)
(*     (src/src/services/command_service.py, src/src/utilities.py),        *)
(*   - main and FrameworkGenerator (src/main.py,                           *)
(*     src/src/framework_generator.py).                                    *)
(*                                                                         *)
(* Python values: None is the record NoneVal, a dict is a function with a  *)
(* domain of strings, a list is a sequence; the empty dict and the empty   *)
(* list are both <<>>, and both are falsy, as in Python.                   *)
(***************************************************************************)
EXTENDS Integers, Sequences, FiniteSets, TLC

VARIABLES
    store,      \* the shelve files "checkpoints*": [exists, db]
    rt,         \* one activation of run_command_with_fix
    it,         \* a for loop over Checkpoint.checkpoint_iter and its caller
    proc,       \* the process running main: its position, FrameworkGenerator
                \* and locals, and what this run has done so far
    log,        \* what the runs since the last clear() have done
    api,        \* a caller of the Checkpoint methods: its last call, the store
                \* before it, and the object its checkpoint was given
    wr,         \* one Checkpoint.save of the main thread, statement by
                \* statement, and the signal that may cut it
    mg          \* one split of an API definition and the merge of its items

vars == <<store, rt, it, proc, log, api, wr, mg>>

-----------------------------------------------------------------------------
(* Bounds of the model *)

MaxRetries == 3

\* longest iterable handed to checkpoint_iter
MaxLen == 3

\* runs of a checkpoint_iter loop (the first one and the restarts)
MaxIterRuns == 2

\* runs of main (the first one and the reruns)
MaxRuns == 2

\* calls a caller of the Checkpoint methods makes in a row
MaxCalls == 3

\* calls of save in one process of the statement-by-statement model
MaxWrites == 2

\* calls of memoized methods one object receives in a row
MaxMemoCalls == 4

\* paths of one API definition given to the splitter
MaxPaths == 2

-----------------------------------------------------------------------------
(* Python values *)

NoneVal == [py |-> "None"]

EmptyDict == <<>>

\* Python truthiness of None, of a dict and of a list
Falsy(v) == v = NoneVal \/ v = <<>>

\* a str held in the store, told apart from a dict
PyStr(s) == [str |-> s]

IsPyStr(v) == "str" \in DOMAIN v

\* an exception that leaves the call
Raised(exception) == [raised |-> exception]

\* d.get(k, default) of a dict
DictGet(d, k, default) == IF k \in DOMAIN d THEN d[k] ELSE default

\* d.update(e), as a new dict
DictUpdate(d, e) ==
    [k \in DOMAIN d \cup DOMAIN e |-> IF k \in DOMAIN e THEN e[k] ELSE d[k]]

-----------------------------------------------------------------------------
(* Checkpoint: the store *)

DefaultNamespace == "default"

LastNamespaceKey == "last_namespace"

NoStore == [exists |-> FALSE, db |-> <<>>]

\* Checkpoint._get_checkpoint_key: f"{self.namespace}_{tag or self.tag}"
CheckpointKey(namespace, tag) == namespace \o "_" \o tag

\* Checkpoint._shelve_exists
ShelveExists(st) == st.exists

\* a write that keeps nothing but the key it writes
DbPutAlone(st, key, value) ==
    [exists |-> TRUE, db |-> [k \in {key} |-> value]]

\* db[key] = value on an open shelf (opening it creates the files)
DbPut(st, key, value) ==
    [exists |-> TRUE,
     db |-> [k \in DOMAIN st.db \cup {key} |->
                IF k = key THEN value ELSE st.db[k]]]

\* db.get(key)
DbGet(st, key) == DictGet(st.db, key, NoneVal)

\* a save_last_namespace that writes nothing
SaveLastNamespaceNothing(st, namespace) == st

\* Checkpoint.save_last_namespace
SaveLastNamespace(st, namespace) == DbPut(st, LastNamespaceKey, PyStr(namespace))

\* Checkpoint.get_last_namespace: whatever value the key holds
GetLastNamespace(st) ==
    IF ~ShelveExists(st) THEN PyStr(DefaultNamespace)
    ELSE DictGet(st.db, LastNamespaceKey, PyStr(DefaultNamespace))

\* Checkpoint.save(tag, state) with skip_object left at True, as every caller
\* does; locals are the caller's local variables, stored when state is falsy
Save(st, namespace, tag, state, locals) ==
    DbPut(st, CheckpointKey(namespace, tag),
          IF Falsy(state) THEN locals ELSE state)

\* a restore that infers a default payload where there is no record
RestoreOrDefault(st, namespace, tag) ==
    IF ~ShelveExists(st) \/ CheckpointKey(namespace, tag) \notin DOMAIN st.db
    THEN [processed |-> <<>>, extra_state |-> EmptyDict]
    ELSE [var \in DOMAIN st.db[CheckpointKey(namespace, tag)] \ {"self"} |->
             st.db[CheckpointKey(namespace, tag)][var]]

\* Checkpoint.restore(tag): the returned function_state, or None; a str
\* under the key has no get()
Restore(st, namespace, tag) ==
    IF ~ShelveExists(st) THEN NoneVal
    ELSE LET saved_data == DbGet(st, CheckpointKey(namespace, tag))
         IN  IF Falsy(saved_data) THEN NoneVal
             ELSE IF IsPyStr(saved_data) THEN Raised("AttributeError")
             ELSE [var \in DOMAIN saved_data \ {"self"} |-> saved_data[var]]

\* a restore that resets the counters where there is no record
RestoreObjectStateDefaults(st, namespace, tag) ==
    IF ~ShelveExists(st) \/ CheckpointKey(namespace, tag) \notin DOMAIN st.db
    THEN [models_count |-> 0, test_files_count |-> 0]
    ELSE DictGet(st.db[CheckpointKey(namespace, tag)], "self", EmptyDict)

\* a restore that sets no attribute
RestoreObjectStateNothing(st, namespace, tag) == EmptyDict

\* Checkpoint.restore(tag, restore_object=True): the attributes set on self.obj
RestoreObjectState(st, namespace, tag) ==
    IF ~ShelveExists(st) THEN EmptyDict
    ELSE LET saved_data == DbGet(st, CheckpointKey(namespace, tag))
         IN  IF Falsy(saved_data) \/ IsPyStr(saved_data) THEN EmptyDict
             ELSE DictGet(saved_data, "self", EmptyDict)

\* shelve.open(DB_NAME): the default flag "c" creates the files when there
\* are none
ShelveOpen(st) == [exists |-> TRUE, db |-> st.db]

\* a read that opens the shelf without asking whether it exists
StoreAfterReadOpens(st) == ShelveOpen(st)

\* the store after restore, get_last_namespace or restore_last_namespace:
\* the shelf is opened only when _shelve_exists says there is one
StoreAfterRead(st) == IF ~ShelveExists(st) THEN st ELSE ShelveOpen(st)

\* Checkpoint.restore_last_namespace: self.namespace after the call
RestoreLastNamespace(st, namespace) ==
    IF ~ShelveExists(st) THEN PyStr(namespace)
    ELSE DictGet(st.db, LastNamespaceKey, PyStr(DefaultNamespace))

\* a clear that keeps the last-namespace record
ClearKeepsLastNamespace(st) ==
    [exists |-> st.exists,
     db |-> [k \in DOMAIN st.db \cap {LastNamespaceKey} |-> st.db[k]]]

\* Checkpoint.clear
Clear(st) == NoStore

-----------------------------------------------------------------------------
(* Checkpoint.checkpoint_iter *)

\* item in processed
InList(item, list) == \E i \in 1..Len(list) : list[i] = item

\* a tracker that starts from nothing every time
IterRestoredStateFresh(st, namespace, tag) ==
    [processed |-> <<>>, extra_state |-> EmptyDict]

\* state = self.restore(tag) or {"processed": [], "extra_state": {}}
IterRestoredState(st, namespace, tag) ==
    LET restored == Restore(st, namespace, tag)
    IN  IF Falsy(restored)
        THEN [processed |-> <<>>, extra_state |-> EmptyDict]
        ELSE restored

\* a tracker that skips by position: as many items as were processed
RemainingItemsByPosition(iterable, processed) ==
    SubSeq(iterable, Len(processed) + 1, Len(iterable))

\* a tracker that forgets to leave out the processed items
RemainingItemsAll(iterable, processed) == iterable

\* remaining_items = [item for item in iterable if item not in processed]
RemainingItems(iterable, processed) ==
    SelectSeq(iterable, LAMBDA item : ~InList(item, processed))

\* a merge in which the caller's values win over the snapshot's
MergeExtraStateKeepCaller(extra_state, saved_extra_state) ==
    IF extra_state = NoneVal THEN NoneVal
    ELSE DictUpdate(saved_extra_state, extra_state)

\* if extra_state is not None: extra_state.update(saved_extra_state)
MergeExtraState(extra_state, saved_extra_state) ==
    IF extra_state = NoneVal THEN NoneVal
    ELSE DictUpdate(extra_state, saved_extra_state)

\* the generator's frame after the code that precedes the for loop; pos is
\* the index in remaining_items of the item being yielded, 0 before the first
IterEnter(st, namespace, tag, iterable, extra_state) ==
    LET state == IterRestoredState(st, namespace, tag)
        processed == DictGet(state, "processed", <<>>)
        saved_extra_state == DictGet(state, "extra_state", EmptyDict)
    IN  [namespace |-> namespace,
         tag |-> tag,
         processed |-> processed,
         extra_state |-> MergeExtraState(extra_state, saved_extra_state),
         remaining_items |-> RemainingItems(iterable, processed),
         pos |-> 0]

\* the loop has another item to yield
IterHasNext(frame) == frame.pos < Len(frame.remaining_items)

\* yield item
IterYield(frame) == [frame EXCEPT !.pos = @ + 1]

IterCurrent(frame) == frame.remaining_items[frame.pos]

\* new_state = {"processed": processed, "extra_state": extra_state or {}}
IterNewState(processed, extra_state) ==
    [processed |-> processed,
     extra_state |-> IF Falsy(extra_state) THEN EmptyDict ELSE extra_state]

\* a tracker that does not record the item
IterMarkProcessedNothing(frame) == frame

\* control is back in the generator: processed.append(item)
IterMarkProcessed(frame) ==
    [frame EXCEPT !.processed = Append(@, IterCurrent(frame))]

\* self.save(tag, new_state), after IterMarkProcessed
IterSave(st, frame) ==
    Save(st, frame.namespace, frame.tag,
         IterNewState(frame.processed, frame.extra_state),
         EmptyDict)

-----------------------------------------------------------------------------
(* A caller of checkpoint_iter: a for loop whose body updates extra_state, *)
(* cut by an exception of the body or by the end of the process and        *)
(* started again                                                           *)

ItemSet == {"i1", "i2", "i3"}

IterNamespace == "run"

IterTag == "generate_paths"

\* the lists of at most n items
ListsUpTo(n) == UNION {[1..m -> ItemSet] : m \in 0..n}

\* the extra_state arguments: none, an empty dict, fresh accumulators and one
\* that already holds values
CallerDicts ==
    {NoneVal, EmptyDict, [info |-> <<>>], [info |-> <<>>, aux |-> 0],
     [info |-> <<"i3">>, aux |-> 1]}

\* what a loop body does to the accumulator
BodyEffects == {"none", "update"}

ApplyEffect(extra_state, effect, item) ==
    IF extra_state = NoneVal THEN NoneVal
    ELSE [k \in DOMAIN extra_state |->
            IF k = "info" /\ effect = "update"
            THEN Append(extra_state[k], item)
            ELSE IF k = "aux" /\ effect = "update"
            THEN 1 - extra_state[k]
            ELSE extra_state[k]]

ItIdle ==
    [pc |-> "idle", run |-> 0, frame |-> NoneVal, iterable |-> <<>>,
     caller |-> NoneVal, merged |-> NoneVal, before |-> NoneVal,
     yielded |-> <<>>, prev_yielded |-> <<>>, finished |-> <<>>,
     at_return |-> NoneVal, prev_return |-> NoneVal]

\* the loop is entered, for the first time or again over the same iterable:
\* the generator runs up to its first yield, or ends at once when nothing
\* remains
IterStart ==
    /\ it.pc \in {"idle", "cut", "finished"}
    /\ it.run < MaxIterRuns
    /\ \E iterable \in IF it.run = 0 THEN ListsUpTo(MaxLen) ELSE {it.iterable},
          caller \in CallerDicts :
          LET frame == IterEnter(store, IterNamespace, IterTag, iterable, caller)
              more == IterHasNext(frame)
          IN  it' = [it EXCEPT
                       !.pc = IF more THEN "body" ELSE "finished",
                       !.run = @ + 1,
                       !.frame = IF more THEN IterYield(frame) ELSE frame,
                       !.iterable = iterable,
                       !.caller = caller,
                       !.merged = frame.extra_state,
                       !.before = Restore(store, IterNamespace, IterTag),
                       !.yielded = IF more THEN <<frame.remaining_items[1]>> ELSE <<>>,
                       !.prev_yielded = it.yielded,
                       !.finished = <<>>,
                       !.prev_return = it.at_return]
    /\ UNCHANGED <<store, rt, proc, log, api, wr, mg>>

\* the body of the yielded item ends and the for loop asks for the next
\* item: the generator marks the item processed, saves and yields again
IterResume ==
    /\ it.pc = "body"
    /\ \E effect \in BodyEffects :
          LET worked == [it.frame EXCEPT
                            !.extra_state = ApplyEffect(@, effect, IterCurrent(it.frame))]
              marked == IterMarkProcessed(worked)
              more == IterHasNext(marked)
          IN  /\ store' = IterSave(store, marked)
              /\ it' = [it EXCEPT
                          !.pc = IF more THEN "body" ELSE "finished",
                          !.frame = IF more THEN IterYield(marked) ELSE marked,
                          !.yielded = IF more
                                      THEN Append(@, marked.remaining_items[marked.pos + 1])
                                      ELSE @,
                          !.finished = Append(@, IterCurrent(it.frame)),
                          !.at_return = worked.extra_state]
    /\ UNCHANGED <<rt, proc, log, api, wr, mg>>

\* the body raises: the exception leaves the for loop, the generator is
\* never resumed
IterBodyRaises ==
    /\ it.pc = "body"
    /\ it' = [it EXCEPT !.pc = "cut"]
    /\ UNCHANGED <<store, rt, proc, log, api, wr, mg>>

\* the process is killed or exits on a signal while the loop is running:
\* inside the body, or when the body has ended and the generator has not
\* yet written its record
IterProcessEnds ==
    /\ it.pc = "body"
    /\ \E body_ended \in BOOLEAN :
          it' = [it EXCEPT
                   !.pc = "cut",
                   !.finished = IF body_ended
                                THEN Append(@, IterCurrent(it.frame))
                                ELSE @]
    /\ UNCHANGED <<store, rt, proc, log, api, wr, mg>>

\* the loop is entered again over another iterable (reordered, extended,
\* shortened or unrelated), with the same extra_state argument
IterStartOver ==
    /\ it.pc \in {"cut", "finished"}
    /\ it.run < MaxIterRuns
    /\ \E iterable \in ListsUpTo(MaxLen) \ {it.iterable} :
          LET frame == IterEnter(store, IterNamespace, IterTag, iterable, it.caller)
              more == IterHasNext(frame)
          IN  it' = [it EXCEPT
                       !.pc = IF more THEN "body" ELSE "finished",
                       !.run = @ + 1,
                       !.frame = IF more THEN IterYield(frame) ELSE frame,
                       !.iterable = iterable,
                       !.merged = frame.extra_state,
                       !.before = Restore(store, IterNamespace, IterTag),
                       !.yielded = IF more THEN <<frame.remaining_items[1]>> ELSE <<>>,
                       !.prev_yielded = it.yielded,
                       !.finished = <<>>,
                       !.prev_return = it.at_return]
    /\ UNCHANGED <<store, rt, proc, log, api, wr, mg>>

-----------------------------------------------------------------------------
(* run_command_with_fix: CommandService (variant "service") and            *)
(* utilities (variant "utilities")                                         *)

Variants == {"service", "utilities"}

Messages == {"m1", "m2"}

\* what command_func(files) returns
Outcomes == {<<s, m>> : s \in BOOLEAN, m \in Messages}

CommandEvent(outcome) == [op |-> "command", success |-> outcome[1], message |-> outcome[2]]

FixEvent(message) == [op |-> "fix", message |-> message]

RtIdle == [pc |-> "idle"]

\* entry: files = files or []; retry_count = 0
RetryEnter(variant, max_retries, has_fix) ==
    [pc |-> "loop", variant |-> variant, max_retries |-> max_retries,
     has_fix |-> has_fix, retry_count |-> 0, trace |-> <<>>, ret |-> NoneVal]

\* a loop that runs once too often
RetryLoopGuardOffByOne(r) == r.retry_count <= r.max_retries

\* the guard of the while loop
RetryLoopGuard(r) == r.retry_count < r.max_retries

\* a loop body without the early return on success
RetryLoopBodyNoReturn(r, outcome) ==
    [r EXCEPT !.retry_count = @ + 1,
              !.ret = outcome,
              !.trace = IF r.has_fix
                        THEN @ \o <<CommandEvent(outcome), FixEvent(outcome[2])>>
                        ELSE Append(@, CommandEvent(outcome))]

\* one pass of the while body: the command, then on failure the fix (when
\* one was given) and retry_count += 1
RetryLoopBody(r, outcome) ==
    IF outcome[1]
    THEN [r EXCEPT !.pc = "done", !.ret = outcome,
                   !.trace = Append(@, CommandEvent(outcome))]
    ELSE [r EXCEPT !.retry_count = @ + 1,
                   !.trace = IF r.has_fix
                             THEN @ \o <<CommandEvent(outcome), FixEvent(outcome[2])>>
                             ELSE Append(@, CommandEvent(outcome))]

\* a final attempt that reports the previous attempt's diagnostics
RetryFinalStale(r, outcome) ==
    [r EXCEPT !.pc = "done",
              !.ret = IF outcome[1] \/ r.trace = <<>> THEN outcome
                      ELSE <<FALSE, r.trace[Len(r.trace)].message>>,
              !.trace = Append(@, CommandEvent(outcome))]

\* a final attempt that is repaired like the attempts of the loop
RetryFinalRepaired(r, outcome) ==
    [r EXCEPT !.pc = "done",
              !.ret = outcome,
              !.trace = IF ~outcome[1] /\ r.has_fix
                        THEN @ \o <<CommandEvent(outcome), FixEvent(outcome[2])>>
                        ELSE Append(@, CommandEvent(outcome))]

\* a final attempt after which utilities reports failure whatever the
\* command returned
RetryFinalUtilitiesFails(r, outcome) ==
    [r EXCEPT !.pc = "done",
              !.ret = IF r.variant = "service" THEN outcome ELSE <<FALSE, outcome[2]>>,
              !.trace = Append(@, CommandEvent(outcome))]

\* after the loop: one more command; CommandService returns (success, message)
\* or (False, message), utilities returns the command's result itself
RetryFinal(r, outcome) ==
    [r EXCEPT !.pc = "done",
              !.ret = IF r.variant = "service"
                      THEN (IF outcome[1] THEN outcome ELSE <<FALSE, outcome[2]>>)
                      ELSE outcome,
              !.trace = Append(@, CommandEvent(outcome))]

RetryCall ==
    /\ rt.pc \in {"idle", "done"}
    /\ \E variant \in Variants, max_retries \in (0 - 1)..MaxRetries, has_fix \in BOOLEAN :
          rt' = RetryEnter(variant, max_retries, has_fix)
    /\ UNCHANGED <<store, it, proc, log, api, wr, mg>>

RetryIterate ==
    /\ rt.pc = "loop"
    /\ RetryLoopGuard(rt)
    /\ \E outcome \in Outcomes : rt' = RetryLoopBody(rt, outcome)
    /\ UNCHANGED <<store, it, proc, log, api, wr, mg>>

RetryLastAttempt ==
    /\ rt.pc = "loop"
    /\ ~RetryLoopGuard(rt)
    /\ \E outcome \in Outcomes : rt' = RetryFinal(rt, outcome)
    /\ UNCHANGED <<store, it, proc, log, api, wr, mg>>

\* the next command invocation of an activation and what follows it up to
\* the invocation after it, or up to the return
RetryStep(r, outcome) ==
    IF r.pc = "done" THEN r
    ELSE IF RetryLoopGuard(r) THEN RetryLoopBody(r, outcome)
    ELSE RetryFinal(r, outcome)

\* both revisions are called with the same max_retries and fix_func
RetryBothCall ==
    /\ \/ rt.pc = "idle"
       \/ rt.pc = "both" /\ rt.service.pc = "done" /\ rt.utilities.pc = "done"
    /\ \E max_retries \in (0 - 1)..MaxRetries, has_fix \in BOOLEAN :
          rt' = [pc |-> "both",
                 service |-> RetryEnter("service", max_retries, has_fix),
                 utilities |-> RetryEnter("utilities", max_retries, has_fix)]
    /\ UNCHANGED <<store, it, proc, log, api, wr, mg>>

\* the k-th command invocation of each revision returns the same outcome
RetryBothStep ==
    /\ rt.pc = "both"
    /\ rt.service.pc = "loop" \/ rt.utilities.pc = "loop"
    /\ \E outcome \in Outcomes :
          rt' = [rt EXCEPT !.service = RetryStep(@, outcome),
                           !.utilities = RetryStep(@, outcome)]
    /\ UNCHANGED <<store, it, proc, log, api, wr, mg>>

-----------------------------------------------------------------------------
(* The stage memoizer: Checkpoint.checkpoint(tag).wrapper *)

\* a wrapper that takes a falsy result for a missing one
MemoHitTruthy(last_state) ==
    /\ ~Falsy(last_state)
    /\ "result" \in DOMAIN last_state
    /\ ~Falsy(last_state["result"])

\* last_state and "result" in last_state
MemoHit(last_state) == ~Falsy(last_state) /\ "result" \in DOMAIN last_state

\* a wrapper that returns the result without saving it
MemoSaveSkipped(st, namespace, checkpoint_tag, result) == st

\* checkpoint.save(tag=checkpoint_tag, state={"result": result})
MemoSave(st, namespace, checkpoint_tag, result) ==
    Save(st, namespace, checkpoint_tag, [result |-> result], EmptyDict)

-----------------------------------------------------------------------------
(* FrameworkGenerator and main *)

\* the tag of FrameworkGenerator.checkpoint
FrameworkTag == "framework_generator"

PathsTag == "generate_paths"

VerbsTag == "generate_verbs"

\* the memoized stages, in the order main calls them
Stages ==
    <<"process_api_definition", "setup_framework", "create_env_file",
      "generate", "run_final_checks">>

\* the stages main calls: setup_framework and create_env_file only when
\* use_existing_framework is false
StagesOf(use_existing_framework) ==
    IF use_existing_framework
    THEN SelectSeq(Stages, LAMBDA s : s \notin {"setup_framework", "create_env_file"})
    ELSE Stages

DestinationFolders == {"out1", "out2"}

\* --destination-folder of a run; the two folders are interchangeable, so
\* the first run is given the first one
FoldersOfRun(run) == IF run = 1 THEN {"out1"} ELSE DestinationFolders

GenerationOptions == {"models", "models_and_first_test", "models_and_tests"}

\* generate_tests in (MODELS_AND_FIRST_TEST, MODELS_AND_TESTS)
WithTests(generate) == generate \in {"models_and_first_test", "models_and_tests"}

\* the exceptions a stage's callable may raise
Exceptions == {"ValueError", "RuntimeError"}

PathDef(path) == [type |-> "path", path |-> path]

VerbDef(path, verb) == [type |-> "verb", path |-> path, verb |-> verb]

\* what api_processor.process_api_definition may return
ApiDefinitions ==
    { <<>>,
      <<PathDef("/a"), PathDef("/b"), VerbDef("/a", "get"), VerbDef("/b", "post")>> }

\* api_processor.get_api_paths / get_api_verbs
GetApiPaths(definitions) == SelectSeq(definitions, LAMBDA d : d.type = "path")

GetApiVerbs(definitions) == SelectSeq(definitions, LAMBDA d : d.type = "verb")

\* len(models) of one llm_service.generate_models call
ModelCounts == {0, 1}

\* llm_service.generate_first_test for a verb: no test, a test file, or a
\* test file and a "/responses" file
TestOutcomes == {"none", "test", "test_and_response"}

TestFiles(outcome) == IF outcome = "none" THEN 0 ELSE IF outcome = "test" THEN 1 ELSE 2

\* FrameworkGenerator.save_state
SaveState(st, p) ==
    Save(st, p.namespace, FrameworkTag,
         [destination_folder |-> p.destination_folder,
          self |-> [models_count |-> p.models_count,
                    test_files_count |-> p.test_files_count]],
         EmptyDict)

\* the record of a process that is not running
ProcStopped(status, run, options) ==
    [pc |-> "exited", status |-> status, at |-> "none",
     prev_status |-> "none", prev_counters |-> NoneVal,
     run |-> run, options |-> options,
     stage |-> "", last_namespace |-> DefaultNamespace, namespace |-> DefaultNamespace,
     destination_folder |-> "", models_count |-> 0, test_files_count |-> 0,
     api_definitions |-> NoneVal, all_generated_models |-> NoneVal,
     frame |-> NoneVal, models |-> 0, tests |-> "none", exc |-> NoneVal,
     gate |-> "none", setup |-> "none",
     asked |-> FALSE, resume |-> FALSE, restored |-> FALSE,
     entered |-> <<>>, invoked |-> <<>>, replayed |-> <<>>,
     paths_before |-> NoneVal, verbs_before |-> NoneVal,
     yielded_paths |-> <<>>, yielded_verbs |-> <<>>]

\* before the first run: the options of the command line that is invoked,
\* and invoked again on every rerun
ProcIdle ==
    {ProcStopped("none", 0, [generate |-> g, use_existing_framework |-> u]) :
        g \in GenerationOptions, u \in BOOLEAN}

\* the process record where main is not modelled
ProcNotUsed ==
    ProcStopped("none", 0, [generate |-> "models", use_existing_framework |-> FALSE])

\* done and raised: the stages whose callable has returned or raised;
\* recorded: per namespace, the models and test files generated for the
\* items the trackers have recorded as processed, and the response files
\* their verbs have added to all_generated_models
LogEmpty ==
    [done |-> <<>>, raised |-> {},
     recorded |-> [n \in DestinationFolders |->
                     [models |-> 0, tests |-> 0, responses |-> 0]]]

\* an item is recorded as processed for which so many models and test
\* files were generated and so many response files added
LogRecorded(l, p, models, tests, responses) ==
    [l EXCEPT !.recorded[p.namespace] =
                 [models |-> @.models + models, tests |-> @.tests + tests,
                  responses |-> @.responses + responses]]

\* the files of all the entries of all_generated_models["info"]
RECURSIVE SumFiles(_)
SumFiles(info) ==
    IF info = <<>> THEN 0 ELSE Head(info).files + SumFiles(Tail(info))

Running == proc.pc # "exited"

\* the process ends; what it did stays readable until the next run starts
Exit(p, status) ==
    [p EXCEPT !.pc = "exited", !.status = status, !.at = p.pc, !.gate = "none",
              !.setup = "none"]

\* the namespace and the counters a process ended with
CountersOf(p) ==
    [namespace |-> p.namespace, models_count |-> p.models_count,
     test_files_count |-> p.test_files_count]

\* config.destination_folder before main updates it: what the generator
\* injected into main at its entry takes as its namespace
DefaultFolder == "generated"

\* main up to the construction of its FrameworkGenerator: the last namespace
\* is read, the user is asked whether to resume when there is one, the
\* configuration is updated and the generator is built
MainStart ==
    /\ ~Running
    /\ proc.run < MaxRuns
    /\ \E folder \in FoldersOfRun(proc.run + 1), answer \in BOOLEAN :
          LET last_namespace == GetLastNamespace(store).str
              asked == last_namespace # DefaultNamespace
              resume == asked /\ answer
              destination_folder == IF resume THEN last_namespace ELSE folder
          IN  /\ asked \/ answer
              /\ proc' = [ProcStopped("none", proc.run + 1, proc.options) EXCEPT
                            !.pc = "startup",
                            !.prev_status = proc.status,
                            !.prev_counters = CountersOf(proc),
                            !.stage = Stages[1],
                            !.last_namespace = last_namespace,
                            !.asked = asked,
                            !.resume = resume,
                            !.namespace = destination_folder,
                            !.destination_folder = destination_folder]
    /\ UNCHANGED <<store, rt, it, log, api, wr, mg>>

\* main between the generator and the first stage: either the namespace is
\* recorded or the generator's state is restored
MainNamespace ==
    /\ proc.pc = "startup"
    /\ LET fresh == \/ proc.last_namespace = DefaultNamespace
                     \/ proc.last_namespace # proc.destination_folder
           obj_state == IF fresh THEN EmptyDict
                        ELSE RestoreObjectState(store, proc.last_namespace, FrameworkTag)
       IN  /\ store' = IF fresh THEN SaveLastNamespace(store, proc.destination_folder)
                       ELSE store
           /\ proc' = [proc EXCEPT
                         !.pc = "enter",
                         !.restored = ~fresh,
                         !.models_count = DictGet(obj_state, "models_count", @),
                         !.test_files_count = DictGet(obj_state, "test_files_count", @)]
    /\ UNCHANGED <<rt, it, log, api, wr, mg>>

\* the stage's wrapper has returned result: main binds api_definitions and
\* goes on to the next stage, or to checkpoint.clear() after the last one
AfterStage(p, result) ==
    LET order == StagesOf(p.options.use_existing_framework)
        i == CHOOSE n \in 1..Len(order) : order[n] = p.stage
        bound == IF p.stage = "process_api_definition"
                 THEN [p EXCEPT !.api_definitions = result]
                 ELSE p
    IN  IF i = Len(order)
        THEN [bound EXCEPT !.pc = "clear", !.stage = ""]
        ELSE [bound EXCEPT !.pc = "enter", !.stage = order[i + 1]]

StageKey(p) == <<p.namespace, p.stage>>

\* the callable of the stage returned result in this run
LogDone(l, p, result) ==
    [l EXCEPT !.done = IF StageKey(p) \in DOMAIN @ THEN @
                       ELSE (StageKey(p) :> [run |-> p.run, result |-> result]) @@ @,
              !.raised = @ \ {StageKey(p)}]

\* the wrapper of a stage is entered: a recorded result is returned without
\* a call, otherwise the callable is invoked
StageEnter ==
    /\ proc.pc = "enter"
    /\ LET last_state == Restore(store, proc.namespace, proc.stage)
       IN  IF MemoHit(last_state)
           THEN proc' = [AfterStage(proc, last_state["result"]) EXCEPT
                            !.setup = "none",
                            !.entered = Append(@, proc.stage),
                            !.replayed = Append(@, [stage |-> proc.stage,
                                                    result |-> last_state["result"]])]
           ELSE proc' = [proc EXCEPT !.pc = "call",
                                     !.setup = "none",
                                     !.entered = Append(@, proc.stage),
                                     !.invoked = Append(@, proc.stage)]
    /\ UNCHANGED <<store, rt, it, log, api, wr, mg>>

\* what the callables other than generate return
StageResults(stage) ==
    IF stage = "process_api_definition" THEN ApiDefinitions ELSE {NoneVal}

\* how the work of setup_framework ended when the callable returned:
\* copy_framework_template returns None when shutil.copytree raised and
\* install_dependencies returns (False, output) when npm failed, and
\* setup_framework uses neither value
SetupOutcomes(stage) ==
    IF stage = "setup_framework"
    THEN {"done", "copy_failed", "install_failed"}
    ELSE {"none"}

\* the callable of a stage other than generate returns: the wrapper saves
\* the result and returns it
StageReturn ==
    /\ proc.pc = "call"
    /\ proc.stage # "generate"
    /\ \E result \in StageResults(proc.stage), outcome \in SetupOutcomes(proc.stage) :
          /\ store' = MemoSave(store, proc.namespace, proc.stage, result)
          /\ proc' = AfterStage([proc EXCEPT !.setup = outcome], result)
          /\ log' = LogDone(log, proc, result)
    /\ UNCHANGED <<rt, it, api, wr, mg>>

\* the positions inside the callable of generate
GeneratePcs == {"paths_body", "paths_check", "verbs_body", "verbs_check"}

\* what restore gave when a loop of generate was entered in this run
LoopEntered(restored) ==
    [processed |-> IF Falsy(restored) THEN <<>> ELSE DictGet(restored, "processed", <<>>),
     finished |-> FALSE]

\* a loop of generate is entered or resumed: the next item is yielded, or
\* the loop ends and generate goes on
PathsLoop(p, frame) ==
    IF IterHasNext(frame)
    THEN [p EXCEPT !.pc = "paths_body", !.frame = IterYield(frame),
                   !.yielded_paths = Append(@, frame.remaining_items[frame.pos + 1])]
    ELSE [p EXCEPT !.pc = "paths_end", !.frame = NoneVal,
                   !.paths_before.finished = TRUE]

VerbsLoop(p, frame) ==
    IF IterHasNext(frame)
    THEN [p EXCEPT !.pc = "verbs_body", !.frame = IterYield(frame),
                   !.yielded_verbs = Append(@, frame.remaining_items[frame.pos + 1])]
    ELSE [p EXCEPT !.pc = "generate_end", !.frame = NoneVal,
                   !.verbs_before.finished = TRUE]

\* generate up to the first path: all_generated_models = {"info": []} and
\* checkpoint_iter(api_paths, "generate_paths", all_generated_models)
GenerateBegin ==
    /\ proc.pc = "call"
    /\ proc.stage = "generate"
    /\ LET frame == IterEnter(store, proc.namespace, PathsTag,
                              GetApiPaths(proc.api_definitions), [info |-> <<>>])
           entered == [proc EXCEPT
                          !.all_generated_models = frame.extra_state,
                          !.paths_before =
                              LoopEntered(Restore(store, proc.namespace, PathsTag))]
       IN  proc' = PathsLoop(entered, frame)
    /\ UNCHANGED <<store, rt, it, log, api, wr, mg>>

\* _generate_models up to the quality checks: the models are generated and
\* counted
PathGenerateModels ==
    /\ proc.pc = "paths_body"
    /\ \E n \in ModelCounts :
          proc' = [proc EXCEPT !.pc = "paths_check", !.models = n,
                               !.models_count = @ + n, !.gate = "none"]
    /\ UNCHANGED <<store, rt, it, log, api, wr, mg>>

\* a wrapper that re-raises without flushing the state
MemoOnExceptionNoFlush(st, p) == st

\* the wrapper's except clause: self.save_state(), then raise
MemoOnException(st, p) == SaveState(st, p)

\* quality checks that raise when the compiler still fails after the last
\* attempt
QualityChecksRaiseOnFailure(success) == ~success

\* _run_code_quality_checks: the pair returned by run_command_with_fix is
\* dropped, format_files and run_linter follow; nothing is raised on a
\* returned failure
QualityChecksRaise(success) == FALSE

\* what the last quality gate of an item returned, "none" when the item had
\* no files to check
GateOutcome(ran, success) ==
    IF ~ran THEN "none" ELSE IF success THEN "passed" ELSE "failed"

\* an exception of the quality checks goes up through generate and the
\* wrapper as every exception of the callable does
GateRaises(gate) ==
    /\ store' = MemoOnException(SaveState(store, proc), proc)
    /\ proc' = [Exit(proc, "failed") EXCEPT
                  !.exc = [raised |-> "RuntimeError", reached_main |-> "RuntimeError"],
                  !.gate = gate]
    /\ log' = [log EXCEPT !.raised = @ \cup {StageKey(proc)}]

\* the quality checks end (run_command_with_fix returned success or
\* failure) and _generate_models returns: the entry of the path is appended
\* to all_generated_models["info"]; the for loop resumes the generator,
\* which records the path, saves and yields the next one
PathAdvance ==
    /\ proc.pc = "paths_check"
    /\ \E success \in BOOLEAN :
          LET gate == GateOutcome(proc.models > 0, success)
              entry == [path |-> IterCurrent(proc.frame).path, files |-> proc.models]
              info == Append(proc.all_generated_models.info, entry)
              worked == [proc.frame EXCEPT !.extra_state = [info |-> info]]
              marked == IterMarkProcessed(worked)
          IN  IF gate # "none" /\ QualityChecksRaise(success)
              THEN GateRaises(gate)
              ELSE /\ store' = IterSave(store, marked)
                   /\ proc' = PathsLoop([proc EXCEPT
                                            !.all_generated_models = [info |-> info],
                                            !.gate = gate],
                                        marked)
                   /\ log' = LogRecorded(log, proc, proc.models, 0, 0)
    /\ UNCHANGED <<rt, it, api, wr, mg>>

\* after the path loop: checkpoint_iter(api_verbs, "generate_verbs") when
\* tests are asked for, otherwise the end of generate
VerbsBegin ==
    /\ proc.pc = "paths_end"
    /\ IF WithTests(proc.options.generate)
       THEN LET frame == IterEnter(store, proc.namespace, VerbsTag,
                                   GetApiVerbs(proc.api_definitions), NoneVal)
                entered == [proc EXCEPT
                               !.gate = "none",
                               !.verbs_before =
                                   LoopEntered(Restore(store, proc.namespace, VerbsTag))]
            IN  proc' = VerbsLoop(entered, frame)
       ELSE proc' = [proc EXCEPT !.pc = "generate_end", !.gate = "none"]
    /\ UNCHANGED <<store, rt, it, log, api, wr, mg>>

\* _generate_tests up to the quality checks: the first test is generated;
\* if tests: test_files_count += len(tests); self.save_state()
VerbGenerateTests ==
    /\ proc.pc = "verbs_body"
    /\ \E outcome \in TestOutcomes :
          LET counted == [proc EXCEPT !.pc = "verbs_check", !.tests = outcome,
                                      !.test_files_count = @ + TestFiles(outcome),
                                      !.gate = "none"]
          IN  /\ proc' = counted
              /\ store' = IF outcome = "none" THEN store ELSE SaveState(store, counted)
    /\ UNCHANGED <<rt, it, log, api, wr, mg>>

\* the files of a verb's tests that are "/responses" files are added to the
\* entry of the verb's root path
AddResponseFiles(info, verb, outcome) ==
    [i \in 1..Len(info) |->
        IF outcome = "test_and_response" /\ info[i].path = verb.path
        THEN [info[i] EXCEPT !.files = @ + 1]
        ELSE info[i]]

\* the quality checks end (and, for MODELS_AND_TESTS, the additional tests
\* are generated and save_state is called again) and _generate_tests
\* returns; the response files are added to all_generated_models; the for
\* loop resumes the generator, which records the verb, saves and yields the
\* next one
VerbAdvance ==
    /\ proc.pc = "verbs_check"
    /\ \E success \in BOOLEAN :
          LET gate == GateOutcome(proc.tests # "none", success)
              verb == IterCurrent(proc.frame)
              info == AddResponseFiles(proc.all_generated_models.info, verb, proc.tests)
              flushed == IF proc.tests # "none" /\ proc.options.generate = "models_and_tests"
                         THEN SaveState(store, proc) ELSE store
              marked == IterMarkProcessed(proc.frame)
          IN  IF gate # "none" /\ QualityChecksRaise(success)
              THEN GateRaises(gate)
              ELSE /\ store' = IterSave(flushed, marked)
                   /\ proc' = VerbsLoop([proc EXCEPT
                                            !.all_generated_models = [info |-> info],
                                            !.gate = gate],
                                        marked)
                   /\ log' = LogRecorded(log, proc, 0, TestFiles(proc.tests),
                                         SumFiles(info) - SumFiles(proc.all_generated_models.info))
    /\ UNCHANGED <<rt, it, api, wr, mg>>

\* generate returns None: the wrapper saves the result and returns it
GenerateReturn ==
    /\ proc.pc = "generate_end"
    /\ store' = MemoSave(store, proc.namespace, proc.stage, NoneVal)
    /\ proc' = AfterStage([proc EXCEPT !.gate = "none"], NoneVal)
    /\ log' = LogDone(log, proc, NoneVal)
    /\ UNCHANGED <<rt, it, api, wr, mg>>

\* the callable of a stage is running
InCallable == proc.pc = "call" \/ proc.pc \in GeneratePcs \/ proc.pc \in {"paths_end", "generate_end"}

\* the callable raises: the stage logs and re-raises (generate calls
\* save_state first), the wrapper calls save_state and re-raises, main logs
\* the exception and returns
StageRaises ==
    /\ InCallable
    /\ \E e \in Exceptions :
          /\ store' = MemoOnException(
                         IF proc.stage = "generate" THEN SaveState(store, proc) ELSE store,
                         proc)
          /\ proc' = [Exit(proc, "failed") EXCEPT !.exc = [raised |-> e, reached_main |-> e]]
    /\ log' = [log EXCEPT !.raised = @ \cup {StageKey(proc)}]
    /\ UNCHANGED <<rt, it, api, wr, mg>>

\* checkpoint.clear() after the last stage, and the end of main
MainClear ==
    /\ proc.pc = "clear"
    /\ store' = Clear(store)
    /\ proc' = Exit(proc, "done")
    /\ log' = LogEmpty
    /\ UNCHANGED <<rt, it, api, wr, mg>>

\* a handler that exits without saving
InterruptSaveSkipped(st, p) == st

\* _handle_interrupt up to sys.exit: self.save_state()
InterruptSave(st, p) == SaveState(st, p)

\* SIGINT or SIGTERM: _handle_interrupt calls save_state and sys.exit(1)
HandleInterrupt ==
    /\ Running
    /\ store' = InterruptSave(store, proc)
    /\ proc' = Exit(proc, "interrupted")
    /\ UNCHANGED <<rt, it, log, api, wr, mg>>

\* SIGINT or SIGTERM while main is still before the construction of its own
\* generator: the handler is that of the generator injected at main's entry,
\* whose checkpoint has the default folder as its namespace
StartupInterrupt ==
    /\ ~Running
    /\ proc.run < MaxRuns
    /\ LET injected == [ProcStopped("interrupted", proc.run + 1, proc.options) EXCEPT
                           !.prev_status = proc.status,
                           !.prev_counters = CountersOf(proc),
                           !.namespace = DefaultFolder,
                           !.destination_folder = DefaultFolder]
       IN  /\ store' = InterruptSave(store, injected)
           /\ proc' = injected
    /\ UNCHANGED <<rt, it, log, api, wr, mg>>

\* the exit status of the process: sys.exit(1) from the handler; main logs
\* the exceptions it catches and returns
ExitStatus(status) ==
    IF status = "interrupted" THEN 1
    ELSE IF status = "killed" THEN 137
    ELSE 0

\* the process is killed: nothing more is written
ProcessKilled ==
    /\ Running
    /\ proc' = Exit(proc, "killed")
    /\ UNCHANGED <<store, rt, it, log, api, wr, mg>>

-----------------------------------------------------------------------------
(* A caller of the Checkpoint methods, with namespaces and tags of its own *)

\* namespaces and tags: "a" with "b_c" and "a_b" with "c" give one key, and
\* so do "last" with "namespace" and the last-namespace record
ApiNamespaces == {"a", "a_b", "last"}

ApiTags == {"b_c", "c", "namespace"}

\* the state argument of save: an empty mapping, a tracker's record as it
\* grows, and a record with the object's state under "self"
ApiPayloads ==
    { EmptyDict,
      [processed |-> <<"i1">>, extra_state |-> EmptyDict],
      [processed |-> <<"i1", "i2">>, extra_state |-> EmptyDict],
      [destination_folder |-> "a",
       self |-> [models_count |-> 1, test_files_count |-> 2]] }

\* the local variables of the function that calls save
ApiLocals == [item |-> "i1"]

\* the object the caller's Checkpoint was given: a generator with counters
ApiObject == [models_count |-> 3, test_files_count |-> 4]

ApiCall(name, namespace, tag, state, returned) ==
    [name |-> name, namespace |-> namespace, tag |-> tag, state |-> state,
     returned |-> returned]

ApiIdle ==
    [calls |-> 0, op |-> ApiCall("none", "", "", NoneVal, NoneVal),
     before |-> NoStore, obj |-> ApiObject, obj_before |-> ApiObject]

\* the caller's record after a call that left the store as st
ApiAfter(call, obj) ==
    [calls |-> api.calls + 1, op |-> call, before |-> store,
     obj |-> obj, obj_before |-> api.obj]

\* Checkpoint(namespace=n).save(tag, state)
ApiSave ==
    /\ api.calls < MaxCalls
    /\ \E n \in ApiNamespaces, t \in ApiTags, state \in ApiPayloads :
          /\ store' = Save(store, n, t, state, ApiLocals)
          /\ api' = ApiAfter(ApiCall("save", n, t, state, NoneVal), api.obj)
    /\ UNCHANGED <<rt, it, proc, log, wr, mg>>

\* Checkpoint(namespace=n).save_last_namespace()
ApiSaveLastNamespace ==
    /\ api.calls < MaxCalls
    /\ \E n \in ApiNamespaces :
          /\ store' = SaveLastNamespace(store, n)
          /\ api' = ApiAfter(ApiCall("save_last_namespace", n, "", NoneVal, NoneVal),
                              api.obj)
    /\ UNCHANGED <<rt, it, proc, log, wr, mg>>

\* Checkpoint.clear()
ApiClear ==
    /\ api.calls < MaxCalls
    /\ store' = Clear(store)
    /\ api' = ApiAfter(ApiCall("clear", "", "", NoneVal, NoneVal), api.obj)
    /\ UNCHANGED <<rt, it, proc, log, wr, mg>>

\* Checkpoint(obj, namespace=n).restore(tag, restore_object=True), as
\* restore_state does: the attributes of "self" are set on the object
ApiRestore ==
    /\ api.calls < MaxCalls
    /\ \E n \in ApiNamespaces, t \in ApiTags :
          /\ api' = ApiAfter(ApiCall("restore", n, t, NoneVal, Restore(store, n, t)),
                              DictUpdate(api.obj, RestoreObjectState(store, n, t)))
    /\ store' = StoreAfterRead(store)
    /\ UNCHANGED <<rt, it, proc, log, wr, mg>>

\* Checkpoint().get_last_namespace()
ApiGetLastNamespace ==
    /\ api.calls < MaxCalls
    /\ api' = ApiAfter(ApiCall("get_last_namespace", DefaultNamespace, "", NoneVal,
                                GetLastNamespace(store)),
                        api.obj)
    /\ store' = StoreAfterRead(store)
    /\ UNCHANGED <<rt, it, proc, log, wr, mg>>

\* Checkpoint(namespace=n).restore_last_namespace(): the call returns None,
\* the record keeps self.namespace as the call leaves it
ApiRestoreLastNamespace ==
    /\ api.calls < MaxCalls
    /\ \E n \in ApiNamespaces :
          api' = ApiAfter(ApiCall("restore_last_namespace", n, "", NoneVal,
                                  RestoreLastNamespace(store, n)),
                          api.obj)
    /\ store' = StoreAfterRead(store)
    /\ UNCHANGED <<rt, it, proc, log, wr, mg>>

-----------------------------------------------------------------------------
(* One Checkpoint.save of the main thread, statement by statement, and a   *)
(* signal that arrives in the middle of it                                 *)

\* the dbm module behind shelve: dbm.gnu locks the file of an open shelf, so
\* that a second shelve.open raises dbm.error; a module that does not lock
\* opens the file again
Backends == {"locking", "sharing"}

\* who calls save: the stage memoizer, checkpoint_iter, save_state
Writers == {"memoizer", "tracker", "save_state"}

WriterTag(writer) ==
    CASE writer = "memoizer" -> "setup_framework"
      [] writer = "tracker" -> PathsTag
      [] writer = "save_state" -> FrameworkTag

\* the state dict of FrameworkGenerator.save_state
CountersRecord(p) ==
    [destination_folder |-> p.destination_folder,
     self |-> [models_count |-> p.models_count,
               test_files_count |-> p.test_files_count]]

\* the state argument of the call
WriterState(writer, p) ==
    CASE writer = "memoizer" -> [result |-> NoneVal]
      [] writer = "tracker" -> IterNewState(<<PathDef("/a")>>, EmptyDict)
      [] writer = "save_state" -> CountersRecord(p)

WrIdle ==
    [pc |-> "idle", backend |-> "locking", writes |-> 0, writer |-> "none",
     namespace |-> DefaultNamespace, destination_folder |-> "",
     models_count |-> 0, test_files_count |-> 0,
     tag |-> "", key |-> "", state |-> NoneVal, assigned |-> FALSE,
     at |-> "none", status |-> 0, raised |-> FALSE]

\* the statements of save at which the shelf is open
ShelfOpenPcs == {"assign", "sync", "close"}

\* save is called and runs up to the with statement (lines 72-79); between
\* two calls the generator may have counted models and test files
WriteCall ==
    /\ wr.pc \in {"idle", "returned"}
    /\ wr.writes < MaxWrites
    /\ \E backend \in IF wr.pc = "idle" THEN Backends ELSE {wr.backend},
          folder \in IF wr.pc = "idle" THEN DestinationFolders ELSE {wr.namespace},
          writer \in Writers, models \in ModelCounts, tests \in TestOutcomes :
          LET p == [wr EXCEPT !.backend = backend,
                              !.namespace = folder,
                              !.destination_folder = folder,
                              !.models_count = @ + models,
                              !.test_files_count = @ + TestFiles(tests)]
          IN  wr' = [p EXCEPT !.pc = "open",
                              !.writes = @ + 1,
                              !.writer = writer,
                              !.tag = WriterTag(writer),
                              !.key = CheckpointKey(folder, WriterTag(writer)),
                              !.state = WriterState(writer, p),
                              !.assigned = FALSE]
    /\ UNCHANGED <<store, rt, it, proc, log, api, mg>>

\* with shelve.open(self.DB_NAME, writeback=True) as db
WriteOpen ==
    /\ wr.pc = "open"
    /\ store' = ShelveOpen(store)
    /\ wr' = [wr EXCEPT !.pc = "assign"]
    /\ UNCHANGED <<rt, it, proc, log, api, mg>>

\* db[key] = state: kept in the shelf's cache and written through
WriteAssign ==
    /\ wr.pc = "assign"
    /\ store' = Save(store, wr.namespace, wr.tag, wr.state, EmptyDict)
    /\ wr' = [wr EXCEPT !.pc = "sync", !.assigned = TRUE]
    /\ UNCHANGED <<rt, it, proc, log, api, mg>>

\* Shelf.sync and Shelf.close write the cached entries again
CacheWriteBack(st, w) ==
    IF w.assigned THEN Save(st, w.namespace, w.tag, w.state, EmptyDict) ELSE st

\* db.sync()
WriteSync ==
    /\ wr.pc = "sync"
    /\ store' = CacheWriteBack(store, wr)
    /\ wr' = [wr EXCEPT !.pc = "close"]
    /\ UNCHANGED <<rt, it, proc, log, api, mg>>

\* the with statement ends: the shelf is closed and save returns
WriteClose ==
    /\ wr.pc = "close"
    /\ store' = CacheWriteBack(store, wr)
    /\ wr' = [wr EXCEPT !.pc = "returned"]
    /\ UNCHANGED <<rt, it, proc, log, api, mg>>

\* the handler's save_state finds the shelf open in the main thread and the
\* dbm module refuses a second open
HandlerSaveRaises(w) == w.pc \in ShelfOpenPcs /\ w.backend = "locking"

\* the store after the handler's save_state: nothing is written when
\* shelve.open raises; where the file opens again the record is written
HandlerSave(st, w) ==
    IF HandlerSaveRaises(w) THEN st ELSE InterruptSave(st, w)

\* sys.exit(1) raises SystemExit in the interrupted frame: a with statement
\* that is open there closes its shelf
ExitUnwind(st, w) ==
    IF w.pc \in ShelfOpenPcs THEN CacheWriteBack(st, w) ELSE st

\* handlers that catch whatever is raised
ExceptCatchesAll(e) == TRUE

\* except Exception as e, the clause of the wrapper, of the stages and of
\* main: instances of Exception are caught; SystemExit derives from
\* BaseException
ExceptException(e) == e \in Exceptions

\* the exception that leaves _handle_interrupt: sys.exit(1) in the finally
\* clause replaces what save_state raised
HandlerLeavesWith(raised) == "SystemExit"

\* SIGINT or SIGTERM while save runs or between two saves:
\* try: self.save_state() finally: sys.exit(1); the exception goes up
\* through the interrupted frames; were it caught there, the wrapper would
\* call save_state and re-raise and main would log it and return
WriteInterrupt ==
    /\ wr.pc \notin {"idle", "exited"}
    /\ LET raised == HandlerSaveRaises(wr)
           caught == ExceptException(HandlerLeavesWith(raised))
           unwound == ExitUnwind(HandlerSave(store, wr), wr)
       IN  /\ store' = IF caught THEN MemoOnException(unwound, wr) ELSE unwound
           /\ wr' = [wr EXCEPT !.pc = "exited", !.at = wr.pc,
                                !.status = IF caught THEN 0 ELSE 1,
                                !.raised = raised]
    /\ UNCHANGED <<rt, it, proc, log, api, mg>>

-----------------------------------------------------------------------------
(* APIDefinitionSplitter.split and APIDefinitionMerger.merge *)

\* a path is the sequence of its segments: <<"a", "b">> is "/a/b"
RECURSIVE PathStr(_)
PathStr(segments) ==
    IF segments = <<>> THEN ""
    ELSE "/" \o Head(segments) \o PathStr(Tail(segments))

\* the paths of the definitions: a resource, the same resource behind an
\* "api" prefix, a sub-resource, and a resource whose name ends in "-GET"
RawPaths == {<<"a">>, <<"api", "a">>, <<"a", "b">>, <<"a-GET">>}

\* the keys of one path's mapping, in order
VerbLists == {<<"get">>, <<"get", "post">>, <<"post">>}

Upper(verb) ==
    CASE verb = "get" -> "GET"
      [] verb = "post" -> "POST"
      [] OTHER -> verb

\* parts[start_index].startswith("v") and parts[start_index][1:].isdigit()
IsVersion(part) == part \in {"v1", "v2"}

\* APIDefinitionSplitter._normalize_path: a leading "api" and a version
\* are dropped unless nothing is left
NormalizePath(parts) ==
    LET no_api == IF parts # <<>> /\ Head(parts) = "api" THEN Tail(parts) ELSE parts
        no_version == IF no_api # <<>> /\ IsVersion(Head(no_api))
                      THEN Tail(no_api) ELSE no_api
    IN  IF no_version # <<>> THEN no_version ELSE parts

\* _create_entry; yaml holds the keys of the entry's "paths" mapping
CreateEntry(entry_type, path, verb, yaml_paths) ==
    [type |-> entry_type, path |-> path, verb |-> verb, yaml |-> yaml_paths]

\* the entries of one path: the path's entry, then one entry per verb
SplitPath(path, verbs) ==
    <<CreateEntry("path", NormalizePath(path), NoneVal, <<PathStr(path)>>)>> \o
    [i \in 1..Len(verbs) |->
        CreateEntry("verb", NormalizePath(path), Upper(verbs[i]), <<PathStr(path)>>)]

\* APIDefinitionSplitter.split: the base entry, then the entries of the
\* paths in the order of the definition
RECURSIVE SplitPaths(_)
SplitPaths(paths) ==
    IF paths = <<>> THEN <<>>
    ELSE SplitPath(Head(paths).path, Head(paths).verbs) \o SplitPaths(Tail(paths))

Split(api_definition) ==
    <<CreateEntry("base", NoneVal, NoneVal, <<>>)>> \o SplitPaths(api_definition)

\* the API definitions: up to MaxPaths different paths, each with verbs
ApiDocuments ==
    {<<[path |-> p, verbs |-> v]>> : p \in RawPaths, v \in VerbLists} \cup
    {d \in {<<[path |-> p1, verbs |-> v1], [path |-> p2, verbs |-> v2]>> :
                p1 \in RawPaths, p2 \in RawPaths, v1 \in VerbLists, v2 \in VerbLists} :
        d[1].path # d[2].path}

\* a dict in insertion order: a sequence of [key, value]
OrderedHas(dict, key) == \E i \in 1..Len(dict) : dict[i].key = key

OrderedGet(dict, key) ==
    dict[CHOOSE i \in 1..Len(dict) : dict[i].key = key].value

\* dict[key] = value: a new key goes to the end, a key that is there keeps
\* its place
OrderedSet(dict, key, value) ==
    IF OrderedHas(dict, key)
    THEN [i \in 1..Len(dict) |->
             IF dict[i].key = key THEN [key |-> key, value |-> value] ELSE dict[i]]
    ELSE Append(dict, [key |-> key, value |-> value])

\* a merger that keys the entries by their type as well
MergeKeyTyped(entry_type, path, verb) ==
    IF entry_type = "path" THEN "path " \o PathStr(path)
    ELSE "verb " \o PathStr(path) \o "-" \o verb

\* the key of an entry in merged_definitions: base_path for a path entry,
\* f"{item['path']}-{item['verb']}" for a verb entry
MergeKey(entry_type, path, verb) ==
    IF entry_type = "path" THEN PathStr(path)
    ELSE PathStr(path) \o "-" \o verb

\* "/" + item["path"].split("/", 2)[1]
BasePath(path) == SubSeq(path, 1, 1)

\* the paths of the item's yaml that the merged yaml does not have are
\* added to it
MergeYaml(merged_yaml, item_yaml) ==
    merged_yaml \o SelectSeq(item_yaml, LAMBDA path : ~InList(path, merged_yaml))

\* one pass of the for loop of merge
MergeOne(merged_definitions, item) ==
    IF item.type = "path"
    THEN LET base_path == BasePath(item.path)
             key == MergeKey("path", base_path, NoneVal)
         IN  IF ~OrderedHas(merged_definitions, key)
             THEN OrderedSet(merged_definitions, key, [item EXCEPT !.path = base_path])
             ELSE OrderedSet(merged_definitions, key,
                             [OrderedGet(merged_definitions, key) EXCEPT
                                 !.yaml = MergeYaml(@, item.yaml)])
    ELSE IF item.type = "verb"
    THEN OrderedSet(merged_definitions, MergeKey("verb", item.path, item.verb), item)
    ELSE merged_definitions

\* list(merged_definitions.values())
OrderedValues(dict) == [i \in 1..Len(dict) |-> dict[i].value]

MgIdle ==
    [pc |-> "idle", api_definition |-> <<>>, api_definition_list |-> <<>>,
     pos |-> 0, merged_definitions |-> <<>>, returned |-> NoneVal]

\* split(api_definition) returns and merge is called with the list
MergeCall ==
    /\ mg.pc = "start"
    /\ mg' = [mg EXCEPT !.pc = "loop",
                         !.api_definition_list = Split(mg.api_definition)]
    /\ UNCHANGED <<store, rt, it, proc, log, api, wr>>

\* for item in api_definition_list
MergeItem ==
    /\ mg.pc = "loop"
    /\ mg.pos < Len(mg.api_definition_list)
    /\ mg' = [mg EXCEPT !.pos = @ + 1,
                         !.merged_definitions =
                             MergeOne(@, mg.api_definition_list[mg.pos + 1])]
    /\ UNCHANGED <<store, rt, it, proc, log, api, wr>>

\* return list(merged_definitions.values())
MergeReturn ==
    /\ mg.pc = "loop"
    /\ mg.pos = Len(mg.api_definition_list)
    /\ mg' = [mg EXCEPT !.pc = "returned",
                         !.returned = OrderedValues(mg.merged_definitions)]
    /\ UNCHANGED <<store, rt, it, proc, log, api, wr>>

-----------------------------------------------------------------------------
(* Specifications *)

\* run_command_with_fix alone
RetryInit ==
    /\ store = NoStore
    /\ rt = RtIdle
    /\ it = ItIdle
    /\ proc = ProcNotUsed
    /\ log = LogEmpty
    /\ api = ApiIdle
    /\ wr = WrIdle
    /\ mg = MgIdle

RetryNext == RetryCall \/ RetryIterate \/ RetryLastAttempt

SpecRetry == RetryInit /\ [][RetryNext]_vars

\* run_command_with_fix under a scheduler that lets a call that has begun
\* go on: every command and every repair returns
SpecRetryLive ==
    /\ RetryInit
    /\ [][RetryNext]_vars
    /\ WF_vars(RetryIterate)
    /\ WF_vars(RetryLastAttempt)

\* the two revisions of run_command_with_fix side by side
RetryBothNext == RetryBothCall \/ RetryBothStep

SpecRetryBoth == RetryInit /\ [][RetryBothNext]_vars

\* a checkpoint_iter loop alone
IterInit ==
    /\ store = NoStore
    /\ rt = RtIdle
    /\ it = ItIdle
    /\ proc = ProcNotUsed
    /\ log = LogEmpty
    /\ api = ApiIdle
    /\ wr = WrIdle
    /\ mg = MgIdle

IterNext == IterStart \/ IterResume \/ IterBodyRaises \/ IterProcessEnds

SpecIter == IterInit /\ [][IterNext]_vars

\* a checkpoint_iter loop entered again over an input that may have changed
IterChangedNext ==
    \/ IterStart
    \/ IterStartOver
    \/ IterResume
    \/ IterBodyRaises
    \/ IterProcessEnds

SpecIterChanged == IterInit /\ [][IterChangedNext]_vars

\* the Checkpoint methods alone, called in any order
StoreInit ==
    /\ store = NoStore
    /\ rt = RtIdle
    /\ it = ItIdle
    /\ proc = ProcNotUsed
    /\ log = LogEmpty
    /\ api = ApiIdle
    /\ wr = WrIdle
    /\ mg = MgIdle

StoreNext ==
    \/ ApiSave
    \/ ApiSaveLastNamespace
    \/ ApiClear
    \/ ApiRestore
    \/ ApiGetLastNamespace
    \/ ApiRestoreLastNamespace

SpecStore == StoreInit /\ [][StoreNext]_vars

\* the memoized methods of one object called with any arguments, in any
\* order, under any namespace
\* a method whose result follows its input and one that returns None
MemoFuncs == {"process_api_definition", "setup_framework"}

\* *args of a call: the definition the method is to work on
MemoArgs == {"api1.yaml", "api2.yaml"}

\* a wrapper that tells invocations with different arguments apart
MemoTagWithArgs(tag, func_name, args) == func_name \o "_" \o args

\* checkpoint_tag = tag or func.__name__; the stages are decorated with
\* Checkpoint.checkpoint(), tag None
MemoTag(tag, func_name, args) == IF Falsy(tag) THEN func_name ELSE tag

\* what the callable computes from its arguments
MemoResult(func_name, args) ==
    IF func_name = "setup_framework" THEN NoneVal ELSE PyStr(args)

\* the object whose method is called, as save_state and the log read it
MemoSelf(namespace, func_name) ==
    [namespace |-> namespace, stage |-> func_name, run |-> api.calls + 1,
     destination_folder |-> namespace,
     models_count |-> api.obj.models_count,
     test_files_count |-> api.obj.test_files_count]

MemoOutcome(invoked, raised, result) ==
    [invoked |-> invoked, raised |-> raised, result |-> result]

\* wrapper(self, *args, **kwargs) up to its return
MemoCall ==
    /\ api.calls < MaxMemoCalls
    /\ \E n \in DestinationFolders, f \in MemoFuncs, args \in MemoArgs :
          LET checkpoint_tag == MemoTag(NoneVal, f, args)
              last_state == Restore(store, n, checkpoint_tag)
              result == MemoResult(f, args)
          IN  IF MemoHit(last_state)
              THEN /\ api' = ApiAfter(ApiCall("wrapper", n, f, args,
                                               MemoOutcome(FALSE, FALSE,
                                                           last_state["result"])),
                                      api.obj)
                   /\ UNCHANGED <<store, log>>
              ELSE /\ store' = MemoSave(store, n, checkpoint_tag, result)
                   /\ api' = ApiAfter(ApiCall("wrapper", n, f, args,
                                               MemoOutcome(TRUE, FALSE, result)),
                                      api.obj)
                   /\ log' = LogDone(log, MemoSelf(n, f), result)
    /\ UNCHANGED <<rt, it, proc, wr, mg>>

\* wrapper(self, *args, **kwargs) when the callable raises: save_state and
\* raise
MemoCallRaises ==
    /\ api.calls < MaxMemoCalls
    /\ \E n \in DestinationFolders, f \in MemoFuncs, args \in MemoArgs :
          /\ ~MemoHit(Restore(store, n, MemoTag(NoneVal, f, args)))
          /\ store' = MemoOnException(store, MemoSelf(n, f))
          /\ api' = ApiAfter(ApiCall("wrapper", n, f, args,
                                      MemoOutcome(TRUE, TRUE, NoneVal)),
                             api.obj)
          /\ log' = [log EXCEPT !.raised = @ \cup {<<n, f>>}]
    /\ UNCHANGED <<rt, it, proc, wr, mg>>

\* checkpoint.clear() between two calls
MemoClear ==
    /\ api.calls < MaxMemoCalls
    /\ store' = Clear(store)
    /\ api' = ApiAfter(ApiCall("clear", "", "", NoneVal, NoneVal), api.obj)
    /\ log' = LogEmpty
    /\ UNCHANGED <<rt, it, proc, wr, mg>>

MemoNext ==
    \/ MemoCall
    \/ MemoCallRaises
    \/ MemoClear

SpecMemo == StoreInit /\ [][MemoNext]_vars

\* the split and the merge of every API definition of the bounds
MergeInit ==
    /\ store = NoStore
    /\ rt = RtIdle
    /\ it = ItIdle
    /\ proc = ProcNotUsed
    /\ log = LogEmpty
    /\ api = ApiIdle
    /\ wr = WrIdle
    /\ mg \in {[MgIdle EXCEPT !.pc = "start", !.api_definition = d] : d \in ApiDocuments}

MergeNext ==
    \/ MergeCall
    \/ MergeItem
    \/ MergeReturn

SpecMerge == MergeInit /\ [][MergeNext]_vars

\* saves of the main thread and a signal in the middle of one
WriteInit ==
    /\ store = NoStore
    /\ rt = RtIdle
    /\ it = ItIdle
    /\ proc = ProcNotUsed
    /\ log = LogEmpty
    /\ api = ApiIdle
    /\ wr = WrIdle
    /\ mg = MgIdle

WriteNext ==
    \/ WriteCall
    \/ WriteOpen
    \/ WriteAssign
    \/ WriteSync
    \/ WriteClose
    \/ WriteInterrupt

SpecWrite == WriteInit /\ [][WriteNext]_vars

\* main, run and run again over one store
Init ==
    /\ store = NoStore
    /\ rt = RtIdle
    /\ it = ItIdle
    /\ proc \in ProcIdle
    /\ log = LogEmpty
    /\ api = ApiIdle
    /\ wr = WrIdle
    /\ mg = MgIdle

Next ==
    \/ MainStart
    \/ MainNamespace
    \/ StageEnter
    \/ StageReturn
    \/ GenerateBegin
    \/ PathGenerateModels
    \/ PathAdvance
    \/ VerbsBegin
    \/ VerbGenerateTests
    \/ VerbAdvance
    \/ GenerateReturn
    \/ StageRaises
    \/ MainClear
    \/ HandleInterrupt
    \/ StartupInterrupt
    \/ ProcessKilled

Spec == Init /\ [][Next]_vars

-----------------------------------------------------------------------------
(* Properties of run_command_with_fix *)

\* the events of a trace with a given op
OpCount(trace, op) == Cardinality({i \in 1..Len(trace) : trace[i].op = op})

CommandEvents(trace) == SelectSeq(trace, LAMBDA e : e.op = "command")

AllFailed(trace) == \A i \in 1..Len(trace) : trace[i].op = "command" => ~trace[i].success

\* the positions of the successful command invocations
SuccessAt(trace) == {i \in 1..Len(trace) : trace[i].op = "command" /\ trace[i].success}

\* C5: with max_retries >= 0, a repair callback and a command that fails on
\* every invocation, a finished run_command_with_fix has invoked the command
\* max_retries + 1 times and the repair max_retries times and returns failure.
C5_RetryBound ==
    (rt.pc = "done" /\ rt.max_retries >= 0 /\ rt.has_fix /\ AllFailed(rt.trace)) =>
        /\ OpCount(rt.trace, "command") = rt.max_retries + 1
        /\ OpCount(rt.trace, "fix") = rt.max_retries
        /\ rt.ret[1] = FALSE

C5_Witness ==
    /\ rt.pc = "done" /\ rt.max_retries >= 2 /\ rt.has_fix
    /\ AllFailed(rt.trace) /\ rt.variant = "utilities"

\* C6: with a repair callback, once the command has succeeded on its j-th
\* invocation the function has returned success, after j command and j - 1
\* repair invocations, and that success is the last invocation it makes.
C6_SuccessShortCircuits ==
    (rt.pc \in {"loop", "done"} /\ rt.has_fix) =>
        \A i \in SuccessAt(rt.trace) :
            /\ i = Len(rt.trace)
            /\ rt.pc = "done"
            /\ rt.ret[1] = TRUE
            /\ OpCount(rt.trace, "fix") = OpCount(rt.trace, "command") - 1

C6_Witness ==
    /\ rt.pc = "done" /\ rt.has_fix /\ SuccessAt(rt.trace) # {}
    /\ OpCount(rt.trace, "command") = 2 /\ OpCount(rt.trace, "fix") = 1

\* C7: a command that reports failure never makes run_command_with_fix
\* raise: every activation that has made its last command invocation has
\* returned a pair (success flag, diagnostics), the outcome of that invocation.
C7_ReturnsLastOutcome ==
    /\ rt.pc \in {"idle", "loop", "done"}
    /\ rt.pc = "done" =>
          LET commands == CommandEvents(rt.trace)
              last == commands[Len(commands)]
          IN  /\ Len(commands) >= 1
              /\ rt.ret \in BOOLEAN \X Messages
              /\ rt.ret = <<last.success, last.message>>

C7_Witness ==
    /\ rt.pc = "done" /\ rt.ret[1] = FALSE /\ rt.ret[2] = "m2"
    /\ OpCount(rt.trace, "command") >= 2 /\ rt.trace[1].message = "m1"

-----------------------------------------------------------------------------
(* Properties of checkpoint_iter *)

Distinct(list) == \A i, j \in 1..Len(list) : i # j => list[i] # list[j]

\* the processed list and the snapshot the store held when the loop was entered
PersistedProcessed ==
    IF it.before = NoneVal THEN <<>> ELSE DictGet(it.before, "processed", <<>>)

PersistedSnapshot ==
    IF it.before = NoneVal THEN EmptyDict ELSE DictGet(it.before, "extra_state", EmptyDict)

Suffix(list, k) == SubSeq(list, k + 1, Len(list))

\* C2: a loop entered again over a list L of pairwise-distinct items, when
\* the store holds the records of L[0..k], yields exactly L[k+1..end] in
\* the original order: what it has yielded so far is a prefix of that
\* suffix, and all of it once the loop has finished.
C2_ResumeYieldsSuffix ==
    (it.run >= 2 /\ Distinct(it.iterable)) =>
        LET k == Len(PersistedProcessed)
            rest == Suffix(it.iterable, k)
        IN  /\ PersistedProcessed = SubSeq(it.iterable, 1, k)
            /\ it.frame.remaining_items = rest
            /\ it.yielded = SubSeq(rest, 1, it.frame.pos)
            /\ it.pc = "finished" => it.yielded = rest

C2_Witness ==
    /\ it.run = 2 /\ it.pc = "finished" /\ it.iterable = <<"i2", "i3", "i1">>
    /\ PersistedProcessed = <<"i2">> /\ it.yielded = <<"i3", "i1">>

\* C3: when the loop is entered with an extra_state dict, the restore step
\* leaves in it, for every key of the persisted snapshot, the value the key
\* had when control last returned to the tracker before that snapshot was
\* saved, and leaves every other key of the caller's dict as it was; with no
\* persisted record the dict is unchanged.
C3_ExtraStateRestored ==
    (it.run >= 1 /\ it.caller # NoneVal) =>
        IF it.before = NoneVal THEN it.merged = it.caller
        ELSE /\ DOMAIN it.merged = DOMAIN it.caller \cup DOMAIN PersistedSnapshot
             /\ \A key \in DOMAIN PersistedSnapshot : it.merged[key] = it.prev_return[key]
             /\ \A key \in DOMAIN it.caller \ DOMAIN PersistedSnapshot :
                    it.merged[key] = it.caller[key]

C3_Witness ==
    /\ it.run = 2 /\ it.caller = [info |-> <<"i3">>, aux |-> 1]
    /\ it.before # NoneVal /\ DOMAIN PersistedSnapshot = {"info"}
    /\ it.merged = [info |-> <<"i1", "i2">>, aux |-> 1]

\* C4: after a cut at any point of a loop, the loop entered again yields no
\* item that is in the persisted processed list, and at most one of the
\* items it yields had its body started in the cut run.
C4_AtMostInFlightRedone ==
    it.run >= 2 =>
        /\ \A i \in 1..Len(it.yielded) : ~InList(it.yielded[i], PersistedProcessed)
        /\ Cardinality({item \in ItemSet : /\ InList(item, it.prev_yielded)
                                           /\ InList(item, it.yielded)}) <= 1

C4_Witness ==
    /\ it.run = 2 /\ it.pc = "finished" /\ it.prev_yielded = <<"i1", "i2">>
    /\ PersistedProcessed = <<"i1">> /\ it.yielded = <<"i2", "i3">>

-----------------------------------------------------------------------------
(* Properties of the memoized stages and of main *)

\* the stages whose callable returned in an earlier run, since the last
\* clear(), under the namespace of the current run
DoneBefore ==
    {stage \in {Stages[i] : i \in 1..Len(Stages)} :
        /\ <<proc.namespace, stage>> \in DOMAIN log.done
        /\ log.done[<<proc.namespace, stage>>].run < proc.run}

FirstResult(stage) == log.done[<<proc.namespace, stage>>].result

InvokedStages == {proc.invoked[i] : i \in 1..Len(proc.invoked)}

\* C1: once a memoized stage has returned normally under a namespace, an
\* invocation in a later run under that namespace (the store not cleared in
\* between) does not invoke the callable, so that the callable has run once
\* over both, and returns the value the first invocation returned.
C1_MemoizedOnce ==
    \A stage \in DoneBefore :
        /\ stage \notin InvokedStages
        /\ \A i \in 1..Len(proc.replayed) :
              proc.replayed[i].stage = stage =>
                  proc.replayed[i].result = FirstResult(stage)

C1_Witness ==
    /\ proc.run = 2
    /\ "process_api_definition" \in DoneBefore
    /\ Len(proc.replayed) >= 1
    /\ proc.replayed[1].stage = "process_api_definition"
    /\ Len(proc.replayed[1].result) = 4

\* the record of a stage's result is in the store
HasResultRecord(namespace, stage) ==
    /\ store.exists
    /\ CheckpointKey(namespace, stage) \in DOMAIN store.db
    /\ "result" \in DOMAIN store.db[CheckpointKey(namespace, stage)]

\* C8: when the callable of a stage has raised, main receives the same
\* exception, the store holds the counters save_state wrote on the way and
\* no result record of the stage; and a stage whose callable raised is not
\* replayed later under that namespace: its callable is invoked again.
C8_RaiseFlushesAndRetries ==
    /\ proc.status = "failed" =>
          /\ proc.exc.reached_main = proc.exc.raised
          /\ store.exists
          /\ CheckpointKey(proc.namespace, FrameworkTag) \in DOMAIN store.db
          /\ store.db[CheckpointKey(proc.namespace, FrameworkTag)]["self"] =
                [models_count |-> proc.models_count,
                 test_files_count |-> proc.test_files_count]
          /\ ~HasResultRecord(proc.namespace, proc.stage)
    /\ \A i \in 1..Len(proc.replayed) :
          <<proc.namespace, proc.replayed[i].stage>> \notin log.raised

C8_Witness ==
    /\ proc.run = 2 /\ proc.prev_status = "failed"
    /\ proc.pc = "call" /\ proc.stage = "setup_framework"
    /\ StageKey(proc) \in log.raised

\* C9: a stage whose callable returned None or an empty value counts as
\* completed: in a later run under the namespace its callable is not invoked
\* and the same value is returned; and only a stage that has a result
\* record is replayed, every other stage is executed (the records are looked
\* at until main clears the store).
C9_EmptyResultIsCompleted ==
    /\ \A stage \in DoneBefore :
          Falsy(FirstResult(stage)) =>
              /\ stage \notin InvokedStages
              /\ \A i \in 1..Len(proc.replayed) :
                    proc.replayed[i].stage = stage =>
                        /\ Falsy(proc.replayed[i].result)
                        /\ proc.replayed[i].result = FirstResult(stage)
    /\ proc.status # "done" =>
          \A i \in 1..Len(proc.replayed) :
              HasResultRecord(proc.namespace, proc.replayed[i].stage)

C9_Witness ==
    /\ proc.run = 2
    /\ Len(proc.replayed) = 2
    /\ proc.replayed[1] = [stage |-> "process_api_definition", result |-> <<>>]
    /\ proc.replayed[2] = [stage |-> "setup_framework", result |-> NoneVal]
    /\ proc.invoked = <<"create_env_file">>

\* the first stage main calls in this run that had not completed before
EarliestNotDone ==
    LET order == StagesOf(proc.options.use_existing_framework)
        open == {i \in 1..Len(order) : order[i] \notin DoneBefore}
    IN  order[CHOOSE i \in open : \A j \in open : i <= j]

\* a loop of generate, entered in this run with the persisted processed list
\* before.processed, has gone on after the persisted items of the list
ResumedAfter(items, before, yielded) ==
    LET k == Len(before.processed)
        rest == Suffix(items, k)
    IN  /\ before.processed = SubSeq(items, 1, k)
        /\ Len(yielded) <= Len(rest)
        /\ yielded = SubSeq(rest, 1, Len(yielded))
        /\ before.finished => yielded = rest

-----------------------------------------------------------------------------
(* Properties of the counters *)

\* the most one pass over a work item adds to its counter
MaxModelsPerPath == CHOOSE n \in ModelCounts : \A m \in ModelCounts : m <= n

MaxTestFilesPerVerb ==
    CHOOSE n \in {TestFiles(o) : o \in TestOutcomes} :
        \A o \in TestOutcomes : TestFiles(o) <= n

\* a run that resumes, under the namespace of the run before it, a run that
\* failed or was interrupted, and has come to the end of its stages
ResumedRunCompletes ==
    /\ proc.pc = "clear"
    /\ proc.run >= 2
    /\ proc.prev_status \in {"failed", "interrupted"}
    /\ proc.namespace = proc.last_namespace

\* C11: when a run that failed or was interrupted has been resumed under its
\* namespace and completes, models_count and test_files_count do not exceed
\* what one uninterrupted pass over the paths and the verbs can count.
C11_NoDoubleCount ==
    ResumedRunCompletes =>
        /\ proc.models_count <=
              Len(GetApiPaths(proc.api_definitions)) * MaxModelsPerPath
        /\ proc.test_files_count <=
              Len(GetApiVerbs(proc.api_definitions)) * MaxTestFilesPerVerb

-----------------------------------------------------------------------------
(* Properties of the ends of a run *)

\* the counters record of the generator's namespace, as save_state writes it
CountersRecorded(p) ==
    /\ store.exists
    /\ CheckpointKey(p.namespace, FrameworkTag) \in DOMAIN store.db
    /\ store.db[CheckpointKey(p.namespace, FrameworkTag)] =
          [destination_folder |-> p.destination_folder,
           self |-> [models_count |-> p.models_count,
                     test_files_count |-> p.test_files_count]]

RestoredAfterFailure ==
    /\ proc.pc = "enter" /\ proc.stage = Stages[1]
    /\ proc.prev_status = "failed"
    /\ proc.namespace = proc.last_namespace
    /\ proc.prev_counters.namespace = proc.namespace

\* C15: when an exception has left a stage, the record (namespace,
\* "framework_generator") holds the counters as they were in memory when it
\* was raised; and restore_state of that namespace in the next process sets
\* the two counters of its generator to those values.
C15_FailureCountersRoundTrip ==
    /\ proc.status = "failed" => CountersRecorded(proc)
    /\ RestoredAfterFailure =>
          /\ proc.models_count = proc.prev_counters.models_count
          /\ proc.test_files_count = proc.prev_counters.test_files_count

C15_Witness ==
    /\ RestoredAfterFailure
    /\ proc.models_count = 2
    /\ proc.test_files_count = 1

\* the processed list the store holds for a loop of generate
PersistedList(namespace, tag) ==
    LET restored == Restore(store, namespace, tag)
    IN  IF Falsy(restored) THEN <<>> ELSE DictGet(restored, "processed", <<>>)

\* the items of a loop whose body has finished and which the generator has
\* recorded: those persisted when the loop was entered and those yielded in
\* this run, but for the one in flight when the process ended
CompletedItems(before, yielded, in_flight) ==
    before.processed \o
        (IF in_flight THEN SubSeq(yielded, 1, Len(yielded) - 1) ELSE yielded)

\* every stage main calls has returned in this run, replayed or executed
AllStagesReturned ==
    LET order == StagesOf(proc.options.use_existing_framework)
    IN  \A i \in 1..Len(order) :
            \/ order[i] \in InvokedStages
            \/ \E j \in 1..Len(proc.replayed) : proc.replayed[j].stage = order[i]

\* the process ended by an exception of a stage or by a signal
EndedEarly == proc.status \in {"failed", "interrupted"}

\* what the store holds when a run has ended
EndOfRun ==
    /\ proc.status = "done" => ~store.exists /\ AllStagesReturned
    /\ EndedEarly =>
          /\ store.exists
          /\ \A key \in DOMAIN log.done :
                /\ HasResultRecord(key[1], key[2])
                /\ store.db[CheckpointKey(key[1], key[2])]["result"] =
                      log.done[key].result
          /\ proc.paths_before # NoneVal =>
                PersistedList(proc.namespace, PathsTag) =
                    CompletedItems(proc.paths_before, proc.yielded_paths,
                                   proc.at \in {"paths_body", "paths_check"})
          /\ proc.verbs_before # NoneVal =>
                PersistedList(proc.namespace, VerbsTag) =
                    CompletedItems(proc.verbs_before, proc.yielded_verbs,
                                   proc.at \in {"verbs_body", "verbs_check"})
          /\ proc.at \notin {"none", "startup"} =>
                /\ LastNamespaceKey \in DOMAIN store.db
                /\ store.db[LastNamespaceKey] = PyStr(proc.namespace)

\* a step takes a record out of the store only when it is main's clear()
\* after the last stage
RecordsKept ==
    (\E key \in DOMAIN store.db : ~store'.exists \/ key \notin DOMAIN store'.db) =>
        /\ proc.pc = "clear"
        /\ proc'.status = "done"

-----------------------------------------------------------------------------
(* Properties of the store *)

\* the key of the caller's last call
OpKey == CheckpointKey(api.op.namespace, api.op.tag)

\* there is no record under the key of (namespace, tag)
NoRecord(st, namespace, tag) ==
    ~ShelveExists(st) \/ CheckpointKey(namespace, tag) \notin DOMAIN st.db

C16_RestoreOfNothing ==
    /\ \A n \in ApiNamespaces, t \in ApiTags :
          NoRecord(store, n, t) => Restore(store, n, t) = NoneVal
    /\ (api.op.name = "restore" /\ NoRecord(api.before, api.op.namespace, api.op.tag)) =>
          /\ api.op.returned = NoneVal
          /\ api.obj = api.obj_before
          /\ store = api.before

C16_Witness ==
    /\ api.op.name = "restore"
    /\ api.before.exists
    /\ NoRecord(api.before, api.op.namespace, api.op.tag)
    /\ api.obj.models_count = 3

\* C17: save(tag, state) changes the record under its own key only: every
\* other key of the store, the last-namespace record among them, is kept
\* with the value it had.
C17_SaveChangesOneKey ==
    api.op.name = "save" =>
        /\ store.exists
        /\ DOMAIN store.db = DOMAIN api.before.db \cup {OpKey}
        /\ \A k \in DOMAIN api.before.db \ {OpKey} : store.db[k] = api.before.db[k]

C17_Witness ==
    /\ api.op.name = "save"
    /\ LastNamespaceKey \in DOMAIN api.before.db
    /\ OpKey \in DOMAIN api.before.db
    /\ OpKey # LastNamespaceKey
    /\ api.before.db[OpKey] = [processed |-> <<"i1">>, extra_state |-> EmptyDict]
    /\ api.op.state = [processed |-> <<"i1", "i2">>, extra_state |-> EmptyDict]

\* a mapping without its "self" entry
WithoutSelf(d) == [var \in DOMAIN d \ {"self"} |-> d[var]]

C19_NamespacesIsolated ==
    api.op.name = "save" =>
        \A n \in ApiNamespaces \ {api.op.namespace}, t \in ApiTags :
            Restore(store, n, t) = Restore(api.before, n, t)

\* C20: save(tag, state) leaves what get_last_namespace() returns as it was,
\* and save_last_namespace() leaves what restore returns as it was, for
\* every namespace and tag.
C20_LastNamespaceApart ==
    /\ api.op.name = "save" =>
          GetLastNamespace(store) = GetLastNamespace(api.before)
    /\ api.op.name = "save_last_namespace" =>
          \A n \in ApiNamespaces, t \in ApiTags :
              Restore(store, n, t) = Restore(api.before, n, t)

\* the operations that only read the store
ReadOps == {"restore", "get_last_namespace", "restore_last_namespace"}

\* the absent or default result of a read made where there is no store
AbsentResult(call) ==
    CASE call.name = "restore" -> NoneVal
      [] call.name = "get_last_namespace" -> PyStr(DefaultNamespace)
      [] call.name = "restore_last_namespace" -> PyStr(call.namespace)

\* C21: restore, get_last_namespace and restore_last_namespace called where
\* no store exists return their absent or default result (None, "default",
\* the namespace left as it was), set nothing on the object and leave the
\* store not existing; a store that did not exist before a call exists after
\* it only when the call was save or save_last_namespace.
C21_ReadsNeverCreate ==
    /\ (api.op.name \in ReadOps /\ ~ShelveExists(api.before)) =>
          /\ ~ShelveExists(store)
          /\ api.op.returned = AbsentResult(api.op)
          /\ api.obj = api.obj_before
    /\ (~ShelveExists(api.before) /\ ShelveExists(store)) =>
          api.op.name \in {"save", "save_last_namespace"}

\* a read made after a clear, where the store exists no more
C21_Witness ==
    /\ api.op.name \in ReadOps
    /\ api.calls = 3
    /\ ~ShelveExists(api.before)
    /\ ~ShelveExists(store)

\* the record of the loop as the store holds it now
StoredRecord == IterRestoredState(store, IterNamespace, IterTag)

StoredProcessed == DictGet(StoredRecord, "processed", <<>>)

IsPrefix(short, long) ==
    /\ Len(short) <= Len(long)
    /\ short = SubSeq(long, 1, Len(short))

\* C22: within one run of the loop, once item N+1 has been yielded the
\* store holds the record whose processed list ends with items 1..N of the
\* run and whose extra_state is the accumulator as item N's body left it;
\* and at every moment the persisted processed list is a prefix of the
\* items recorded when the run began followed by the items whose bodies
\* have finished in the run.
C22_SavedBeforeNextYield ==
    /\ IsPrefix(PersistedProcessed, StoredProcessed)
    /\ IsPrefix(StoredProcessed, PersistedProcessed \o it.finished)
    /\ (it.pc \in {"body", "cut"} /\ Len(it.yielded) >= 2) =>
          LET n == Len(it.yielded) - 1
          IN  /\ StoredProcessed = PersistedProcessed \o SubSeq(it.yielded, 1, n)
              /\ IsPrefix(SubSeq(it.yielded, 1, n), it.finished)
              /\ StoredRecord.extra_state =
                     IF Falsy(it.at_return) THEN EmptyDict ELSE it.at_return

\* a second run in which the third item of the list is being worked on,
\* the two before it recorded with the accumulator they left
C22_Witness ==
    /\ it.run = 2 /\ it.pc = "body" /\ Len(it.yielded) = 2
    /\ Len(PersistedProcessed) = 1
    /\ Len(StoredProcessed) = 2
    /\ StoredRecord.extra_state = [info |-> <<"i1", "i2">>]

\* the items of a list that are equal to no item of another, in their order
RECURSIVE NotIn(_, _)
NotIn(list, others) ==
    IF list = <<>> THEN <<>>
    ELSE IF InList(Head(list), others) THEN NotIn(Tail(list), others)
    ELSE <<Head(list)>> \o NotIn(Tail(list), others)

\* C23: a loop entered over any input, the same as before, reordered or
\* extended, yields no item equal to one of the persisted processed list,
\* yields the other items in the input's order (what it has yielded so far
\* is a prefix of them), and has yielded all of them when it finishes.
C23_SkipsByEquality ==
    it.run >= 1 =>
        /\ \A i \in 1..Len(it.yielded) : ~InList(it.yielded[i], PersistedProcessed)
        /\ IsPrefix(it.yielded, NotIn(it.iterable, PersistedProcessed))
        /\ it.pc = "finished" => it.yielded = NotIn(it.iterable, PersistedProcessed)

\* a run that recorded i1 and was cut, entered again over [i3, i1, i2]
C23_Witness ==
    /\ it.run = 2 /\ it.pc = "finished"
    /\ PersistedProcessed = <<"i1">>
    /\ it.iterable = <<"i3", "i1", "i2">>
    /\ it.yielded = <<"i3", "i2">>

-----------------------------------------------------------------------------
(* Properties of a signal in the middle of a save *)

\* C25: a signal delivered while the store is open in Checkpoint.save ends
\* with the handler finished and the process exited with status 1, the
\* handler's counters record in the store, and the record the main thread
\* was writing in the store as well once its assignment had been made.
C25_OverlapLosesNothing ==
    (wr.pc = "exited" /\ wr.at \in ShelfOpenPcs) =>
        /\ wr.status = 1
        /\ DbGet(store, CheckpointKey(wr.namespace, FrameworkTag)) = CountersRecord(wr)
        /\ wr.assigned => DbGet(store, wr.key) = wr.state

-----------------------------------------------------------------------------
(* Properties of the order of the stages *)

\* the stage whose wrapper was entered last in this run
LastEntered == proc.entered[Len(proc.entered)]

\* main is inside the wrapper of a stage
InStage == proc.pc = "call" \/ proc.pc \in GeneratePcs

\* C26: in a run with use_existing_framework false the wrappers of the
\* stages are entered in the order process_api_definition, setup_framework,
\* create_env_file, generate, run_final_checks, each at most once; main is
\* inside one stage at most, the one entered last; and until clear() every
\* stage entered before the last one has its result record in the store.
C26_StagesInOrder ==
    (~proc.options.use_existing_framework /\ proc.status # "done") =>
        /\ IsPrefix(proc.entered, Stages)
        /\ InStage => (proc.entered # <<>> /\ proc.stage = LastEntered)
        /\ \A i \in 1..(Len(proc.entered) - 1) :
              HasResultRecord(proc.namespace, proc.entered[i])

\* a second run that finds the records of two stages and writes the others
C26_Witness ==
    /\ ~proc.options.use_existing_framework
    /\ proc.run = 2 /\ proc.pc = "clear"
    /\ proc.entered = Stages
    /\ Len(proc.replayed) = 2
    /\ proc.invoked = SubSeq(Stages, 3, 5)

-----------------------------------------------------------------------------
(* Properties of the shape of run_command_with_fix's calls *)

Max0(n) == IF n > 0 THEN n ELSE 0

\* the position of the last repair in a trace, 0 when there is none
LastFix(trace) ==
    IF OpCount(trace, "fix") = 0 THEN 0
    ELSE CHOOSE i \in 1..Len(trace) :
            /\ trace[i].op = "fix"
            /\ \A j \in (i + 1)..Len(trace) : trace[j].op # "fix"

\* C27: in a run_command_with_fix that has returned, the last invocation is
\* a command, never a repair; every repair is followed at once by a command
\* invocation, and that one by a repair or by the return; and the value
\* returned is the outcome of the last command invocation, which comes
\* after the last repair (right after it when there is a repair callback).
C27_NoRepairAfterLastAttempt ==
    rt.pc = "done" =>
        /\ rt.trace # <<>>
        /\ rt.trace[Len(rt.trace)].op = "command"
        /\ \A i \in 1..Len(rt.trace) :
              rt.trace[i].op = "fix" =>
                  /\ i + 1 <= Len(rt.trace)
                  /\ rt.trace[i + 1].op = "command"
                  /\ i + 2 <= Len(rt.trace) => rt.trace[i + 2].op = "fix"
        /\ LastFix(rt.trace) < Len(rt.trace)
        /\ rt.has_fix => LastFix(rt.trace) + 1 = Len(rt.trace)
        /\ rt.ret = <<rt.trace[Len(rt.trace)].success,
                      rt.trace[Len(rt.trace)].message>>

\* attempts exhausted with two repairs: command, fix, command, fix, command
C27_Witness ==
    /\ rt.pc = "done" /\ rt.has_fix /\ rt.max_retries = 2
    /\ rt.retry_count = 2 /\ Len(rt.trace) = 5
    /\ rt.ret[1] = FALSE

\* the bounds of an activation
RetryWithinBounds ==
    rt.pc \in {"loop", "done"} =>
        /\ OpCount(rt.trace, "command") <= Max0(rt.max_retries) + 1
        /\ rt.retry_count \in 0..Max0(rt.max_retries)
        /\ (rt.pc = "done" /\ AllFailed(rt.trace)) =>
               OpCount(rt.trace, "command") = Max0(rt.max_retries) + 1

\* C28: for every max_retries, negative ones and 0 included, with or
\* without a repair callback and whatever the commands return, a call of
\* run_command_with_fix returns; it invokes the command at most
\* max(max_retries, 0) + 1 times, exactly so often when every invocation
\* fails, repair callback or not, and retry_count stays in
\* 0..max(max_retries, 0).
C28_Terminates ==
    /\ []RetryWithinBounds
    /\ (rt.pc = "loop") ~> (rt.pc = "done")

\* without a repair callback: a negative max_retries gives one invocation,
\* and max_retries = 2 gives three when all fail
C28_Witness ==
    /\ rt.pc = "done" /\ ~rt.has_fix /\ AllFailed(rt.trace)
    /\ \/ rt.max_retries < 0 /\ Len(rt.trace) = 1
       \/ rt.max_retries = 2 /\ Len(rt.trace) = 3

-----------------------------------------------------------------------------
(* Properties of the resumption prompt *)

\* the items a loop of generate found recorded when it was entered
SkippedItems(before) == IF before = NoneVal THEN <<>> ELSE before.processed

\* C30: in a run in which the user did not confirm resumption (the answer
\* was "n", or there was no prompt), restore_state is not called, no stage
\* returns a recorded result in place of a call of its callable, and no
\* loop of generate leaves out an item, whatever folder was given.
C30_ResumeOnlyOnConfirmation ==
    (proc.run >= 1 /\ ~proc.resume) =>
        /\ ~proc.restored
        /\ proc.replayed = <<>>
        /\ SkippedItems(proc.paths_before) = <<>>
        /\ SkippedItems(proc.verbs_before) = <<>>

-----------------------------------------------------------------------------
(* Properties of the persisted counters *)

\* the store holds a processed list of a loop of generate under a namespace
HoldsProgress(namespace) ==
    \/ Restore(store, namespace, PathsTag) # NoneVal
    \/ Restore(store, namespace, VerbsTag) # NoneVal

\* the counters a generator has after restore_state(namespace): those of
\* the record (namespace, "framework_generator"), 0 where there is none
PersistedCounters(namespace) ==
    DictUpdate([models_count |-> 0, test_files_count |-> 0],
               RestoreObjectState(store, namespace, FrameworkTag))

\* C31: whenever the store holds a processed list of the path loop or of
\* the verb loop under a namespace, the models_count and test_files_count
\* that the record (namespace, "framework_generator") gives to a resumed
\* generator are not lower than the models and test files generated for
\* the items of those lists.
C31_CountersCoverProgress ==
    \A namespace \in DestinationFolders :
        HoldsProgress(namespace) =>
            /\ PersistedCounters(namespace).models_count >=
                   log.recorded[namespace].models
            /\ PersistedCounters(namespace).test_files_count >=
                   log.recorded[namespace].tests

-----------------------------------------------------------------------------
(* Properties of the models accumulator *)

\* a verb of the verb loop is being worked on
AtVerb == proc.pc \in {"verbs_body", "verbs_check"}

\* C32: the accumulator all_generated_models that a verb of the verb loop
\* sees, in a first run or after a cut and a resume, holds what an
\* uninterrupted run holds at that verb: the models of the recorded paths
\* and the response files added by the verbs recorded before it.
C32_AccumulatorSurvivesCut ==
    AtVerb =>
        SumFiles(proc.all_generated_models.info) =
            log.recorded[proc.namespace].models + log.recorded[proc.namespace].responses

-----------------------------------------------------------------------------
(* Properties of the quality gate *)

\* the record of the loop of the item being worked on, as stored
GateStoredProcessed(st, p) ==
    LET record == Restore(st, p.namespace, p.frame.tag)
    IN  IF record = NoneVal THEN <<>> ELSE DictGet(record, "processed", <<>>)

\* C33: when run_command_with_fix has returned failure for an item, nothing
\* is raised: the run goes on to the next item or to the end of the loop,
\* and the item is in the persisted processed list, so that a loop entered
\* later over the same input does not yield it.
C33_FailedGateContinues ==
    [][(proc.pc \in {"paths_check", "verbs_check"} /\ proc'.gate = "failed") =>
          /\ proc'.pc \in {"paths_body", "paths_end", "verbs_body", "generate_end"}
          /\ proc'.exc = NoneVal
          /\ InList(IterCurrent(proc.frame), GateStoredProcessed(store', proc))
          /\ ~InList(IterCurrent(proc.frame),
                     RemainingItems(proc.frame.remaining_items,
                                    GateStoredProcessed(store', proc)))]_vars

\* the gate of the first verb failed and the second verb is being worked on
C33_Witness ==
    /\ proc.gate = "failed"
    /\ proc.pc = "verbs_body"
    /\ Len(proc.frame.processed) >= 1

-----------------------------------------------------------------------------
(* Properties of setup_framework *)

\* C34: when the callable of setup_framework ends with a failed template
\* copy or a failed dependency installation, no result record is written
\* for the stage, so that a later run under the namespace runs it again.
C34_SetupRecordedOnlyOnSuccess ==
    [][(proc.pc = "call" /\ proc.stage = "setup_framework"
            /\ proc'.setup \in {"copy_failed", "install_failed"}) =>
          ~MemoHit(Restore(store', proc.namespace, "setup_framework"))]_vars

-----------------------------------------------------------------------------
(* Properties of the memoizer's key *)

\* the callable of the method returned under the namespace and no clear
\* followed
HasReturned(l, namespace, func_name) == <<namespace, func_name>> \in DOMAIN l.done

\* C35: once a method has returned under a namespace (its result record is
\* written), a call of it under that namespace returns the recorded result
\* without invoking the callable and without writing, whatever the
\* arguments of the call are.
C35_KeyIgnoresArguments ==
    [][(api'.calls = api.calls + 1 /\ api'.op.name = "wrapper"
            /\ HasReturned(log, api'.op.namespace, api'.op.tag)) =>
          /\ ~api'.op.returned.invoked
          /\ api'.op.returned.result = log.done[<<api'.op.namespace, api'.op.tag>>].result
          /\ store' = store]_vars

\* a call with arguments other than those of the recorded invocation has
\* returned the recorded result
C35_Witness ==
    /\ api.op.name = "wrapper"
    /\ ~api.op.returned.invoked
    /\ api.op.returned.result # MemoResult(api.op.tag, api.op.state)

-----------------------------------------------------------------------------
(* Properties of the signal handler's exit *)

\* the keys of the records the main thread writes for stages and loops
ResultKeys ==
    {CheckpointKey(n, WriterTag(w)) : n \in DestinationFolders,
                                     w \in {"memoizer", "tracker"}}

\* C36: every signal ends the process with exit status 1, also when the
\* handler's save_state raised; the exit is not caught, so that nothing
\* runs after it, and the step of the signal leaves the result records of
\* the stages and the processed lists of the loops as they were.
C36_SignalExitsWithOne ==
    [][/\ wr.pc # "exited"
       /\ wr'.pc = "exited" =>
             /\ wr'.status = 1
             /\ \A k \in ResultKeys : DbGet(store', k) = DbGet(store, k)]_vars

\* the handler's save_state raised while the memoizer was about to assign
\* the result record of a stage: the process has exited with status 1 and
\* the stage has no record
C36_Witness ==
    /\ wr.pc = "exited" /\ wr.status = 1
    /\ wr.raised
    /\ wr.writer = "memoizer" /\ wr.at = "assign"
    /\ DbGet(store, wr.key) = NoneVal

-----------------------------------------------------------------------------
(* Properties of the merged work items *)

\* what tells a work item from the others: a path item is its base
\* resource, a verb item its path and verb
WorkItem(item) ==
    IF item.type = "path" THEN <<"path", PathStr(BasePath(item.path)), "">>
    ELSE <<"verb", PathStr(item.path), item.verb>>

\* the work items of a list in the order of their first occurrence
RECURSIVE FirstOccurrences(_, _)
FirstOccurrences(list, seen) ==
    IF list = <<>> THEN seen
    ELSE IF Head(list).type \notin {"path", "verb"} \/ InList(WorkItem(Head(list)), seen)
    THEN FirstOccurrences(Tail(list), seen)
    ELSE FirstOccurrences(Tail(list), Append(seen, WorkItem(Head(list))))

\* C37: merge returns exactly one path item per base resource and one verb
\* item per (path, verb) pair of its input, in the order of their first
\* occurrence; no entry of one type takes the place of one of the other.
C37_MergedItemsDistinct ==
    mg.pc = "returned" =>
        [i \in 1..Len(mg.returned) |-> WorkItem(mg.returned[i])] =
            FirstOccurrences(mg.api_definition_list, <<>>)

====
